---------------------------- MODULE Spec2Model ----------------------------
(***************************************************************************)
(* Verification model of the reinforcement-learning / tiered-memory core   *)
(* of the YouTube agents backend:                                          *)
(*   - QLearningAgent and RLEngine   (agents_ReinforcementLearning/        *)
(*                                    rl_engine.py)                        *)
(*   - RLEnhancedAgent / rl_enhanced (rl_integration.py)                   *)
(*   - AgentSTM                      (databasess/agents_STM)               *)
(*   - AgentLTM, CentralMemoryDB     (databasess/agents_LTM,               *)
(*                                    databasess/agents_CentralMemory)     *)
(*   - AgentMemoryIntegrator, CollectiveIntelligenceOrchestrator           *)
(*                                   (memory_integration.py)               *)
(*                                                                         *)
(* Floats are fixed-point integers: a Q-value or reward v is stored as     *)
(* v * QScale, a hyperparameter p as p * HyperScale.  A Python dict is a   *)
(* function whose DOMAIN is the dict's key set, so that a missing key is   *)
(* a missing element of the DOMAIN.                                        *)
(***************************************************************************)
EXTENDS Integers, Sequences, FiniteSets, TLC

VARIABLES
    q_table,          \* per agent, QLearningAgent.q_table: state_hash -> (kind -> q)
    learning_stats,   \* per agent, QLearningAgent.learning_stats
    episode_rewards,  \* per agent, QLearningAgent.episode_rewards
    hyper,            \* per agent, learning_rate, discount_factor, epsilon
    current_episode,  \* per agent, RLEngine.current_episode
    discarded,        \* per agent, the open episode decide_action overwrote last
    current_session,  \* per agent, RLEnhancedAgent.current_session
    stm,              \* per agent, the Redis list of AgentSTM, most recent first
    req,              \* per request to a wrapped endpoint, where its wrapper is
    env,              \* whether MongoClient(...) can be built from each database URL
    central,          \* per owner, the connection fields of its CentralMemoryDB
    central_db,       \* the collections of the central memory database
    ltm,              \* per agent, AgentLTM.db and the agent's collections
    integration_stats,\* per agent, AgentMemoryIntegrator.integration_stats
    orch,             \* CollectiveIntelligenceOrchestrator: its cycle in progress
    last,             \* the call that ended last: its name, arguments, outcome
    nops              \* number of calls made so far; also the clock (datetime.now())

qvars == <<q_table, learning_stats, episode_rewards, hyper>>
engvars == <<current_episode, discarded>>
wrapvars == <<current_session, stm, req>>
storevars == <<env, central, central_db, ltm>>
cyclevars == <<integration_stats, orch>>
beyond_wrapper == <<storevars, cyclevars>>
beyond_engine == <<wrapvars, beyond_wrapper>>
vars == <<qvars, engvars, wrapvars, storevars, cyclevars, last, nops>>

----------------------------------------------------------------------------
(* Bounds and units of the model *)

QScale == 1000        \* fixed-point unit of rewards and Q-values
MaxQOps == 2          \* QLearningAgent calls explored per behaviour (SpecQ)
MaxOps == 4           \* RLEngine calls explored per behaviour (Spec)
MaxWrapOps == 4       \* wrapper steps explored per behaviour (SpecWrapper)
MaxLearnOps == 3      \* learning-cycle steps explored per behaviour (SpecLearn)
MaxStoreOps == 3      \* calls on the stores explored per behaviour (SpecStore)
MaxInsightOps == 4    \* syncs and reads explored per behaviour (SpecInsight)
MaxCycleOps == 3      \* calls from outside explored per behaviour (SpecCycle)
MaxBoardOps == 5      \* calls on central memory explored per behaviour (SpecBoard)
MaxPartOps == 4       \* calls explored per behaviour (SpecPartition)
MaxStmOps == 3        \* writes to an AgentSTM explored per behaviour (SpecStm)
WaitUnit == 1800      \* seconds of the shortest wait (SpecStm)
LongWaitUnits == 47   \* WaitUnits of the long wait (SpecStm)
MaxWaitUnits == 49    \* WaitUnits the clock may reach (SpecStm)
TicksPerSecond == 2   \* calls that fit into one second of the clock

(* Program constants *)

HyperScale == 100     \* hyperparameters are given to two decimals
LearningRate == 10    \* learning_rate = 0.1
DiscountFactor == 95  \* discount_factor = 0.95
Epsilon == 10         \* epsilon = 0.1
RollingWindow == 100  \* episode_rewards[-100:]
StmTtl == 86400       \* seconds an experience lives in Redis
StmMinTtl == 3600     \* least time to live update_q_value writes back

----------------------------------------------------------------------------
(* ActionType, in the order of the enum (list(ActionType)) *)

ActionOrder ==
    << "upload_time_optimization", "title_optimization", "thumbnail_optimization",
       "description_optimization", "tag_optimization", "content_strategy",
       "audience_engagement" >>

ActionKinds == { ActionOrder[i] : i \in DOMAIN ActionOrder }

(* The agents: one served through rl_enhanced (RLAgentRegistry.agent_configs),
   one driven by YouTubeAgentSystem (agent_definitions).  Each owns a
   QLearningAgent, an RLEngine and an AgentSTM. *)
WrappedAgent == "agent1_channel_auditor"
SystemAgent == "fifty_videos_fetcher"
\* the agents the YouTubeAgentSystem registers with the orchestrator, in the
\* order of agent_definitions
IntegratorOrder == <<"fifty_videos_fetcher", "trend_analyzer">>
IntegratorAgents == { IntegratorOrder[i] : i \in DOMAIN IntegratorOrder }

Agents == {WrappedAgent} \cup IntegratorAgents

(* Inputs *)

StateHashes == {"h1", "h2"}              \* results of get_state_hash
EmptyHash == ""                          \* next_state_hash as RLEngine fills it
NextHashes == StateHashes \cup {EmptyHash}
InputKinds == {"title_optimization", "audience_engagement"}
Rewards == { -(QScale \div 2), QScale }
RandDraws == {0, 50}                     \* random.random() * HyperScale

(* Python values whose type matters *)
PyFloat(v) == [type |-> "float", val |-> v]
PyNone == [type |-> "NoneType"]
PyStr(s) == [type |-> "str", val |-> s]

----------------------------------------------------------------------------
(* Helpers *)

Abs(x) == IF x < 0 THEN -x ELSE x
Min2(a, b) == IF a <= b THEN a ELSE b
Max2(a, b) == IF a >= b THEN a ELSE b

MaxOfSet(S) == CHOOSE x \in S : \A y \in S : y <= x

SumSeq(s) ==
    LET partial[i \in 0..Len(s)] == IF i = 0 THEN 0 ELSE partial[i - 1] + s[i]
    IN  partial[Len(s)]

LastN(s, n) == IF Len(s) <= n THEN s ELSE SubSeq(s, Len(s) - n + 1, Len(s))

\* the member of a set of one
TheOnly(S) == CHOOSE x \in S : TRUE

EmptyDict == [x \in {} |-> 0]

ZeroRow == [a \in ActionKinds |-> 0]

InitialStats ==
    [total_actions |-> 0, successful_actions |-> 0, avg_reward |-> 0,
     exploration_actions |-> 0]

DefaultHyper ==
    [learning_rate |-> LearningRate, discount_factor |-> DiscountFactor,
     epsilon |-> Epsilon]

----------------------------------------------------------------------------
(* QLearningAgent.  Each operator takes the agent's fields and returns the  *)
(* fields after the call together with its outcome: "ok" or the exception.  *)

\* get_q_value: the row of an unseen state hash is created, all zero; a row
\* that lacks the action kind raises KeyError.
GetQValue(qt, s, a) ==
    LET qt1 == IF s \in DOMAIN qt THEN qt ELSE qt @@ (s :> ZeroRow)
    IN  IF a \in DOMAIN qt1[s]
        THEN [q_table |-> qt1, outcome |-> "ok", value |-> qt1[s][a]]
        ELSE [q_table |-> qt1, outcome |-> "KeyError", value |-> 0]

\* new_q = current_q + lr * (reward + discount * max_next_q - current_q)
QLearningFormula(hp, current_q, reward, max_next_q) ==
    current_q
      + (hp.learning_rate
           * (reward + ((hp.discount_factor * max_next_q) \div HyperScale) - current_q))
        \div HyperScale

\* update_q_value with the maximum of the next state read after the entry
\* was written
UpdateQValueReadsAfterWrite(qt, hp, s, a, reward, ns) ==
    LET g == GetQValue(qt, s, a)
        qt1 == g.q_table
        first == QLearningFormula(hp, g.value, reward.val, 0)
        qt2 == [qt1 EXCEPT ![s][a] = first]
        max_next_q == IF ns \in DOMAIN qt2
                      THEN MaxOfSet({ qt2[ns][k] : k \in DOMAIN qt2[ns] }) ELSE 0
    IN  IF g.outcome # "ok" \/ reward.type # "float"
           \/ (ns \in DOMAIN qt1 /\ DOMAIN qt1[ns] = {})
        THEN [q_table |-> qt1, outcome |-> "KeyError"]
        ELSE [q_table |-> [qt1 EXCEPT ![s][a] =
                             QLearningFormula(hp, g.value, reward.val, max_next_q)],
              outcome |-> "ok"]

\* update_q_value(state_hash, action_type, reward, next_state_hash); reward is
\* a Python value.
UpdateQValue(qt, hp, s, a, reward, ns) ==
    LET g == GetQValue(qt, s, a)
        qt1 == g.q_table
    IN  IF g.outcome # "ok" THEN [q_table |-> qt1, outcome |-> g.outcome]
        ELSE IF ns \in DOMAIN qt1 /\ DOMAIN qt1[ns] = {}
        THEN [q_table |-> qt1, outcome |-> "ValueError"]   \* max() of no values
        ELSE IF reward.type # "float"
        THEN [q_table |-> qt1, outcome |-> "TypeError"]    \* reward + float
        ELSE
            LET max_next_q ==
                    IF ns \in DOMAIN qt1
                    THEN MaxOfSet({ qt1[ns][k] : k \in DOMAIN qt1[ns] })
                    ELSE 0
                new_q == QLearningFormula(hp, g.value, reward.val, max_next_q)
            IN  [q_table |-> [qt1 EXCEPT ![s][a] = new_q], outcome |-> "ok"]

\* the last kind, in enum order, of greatest value
BestActionLastOfTies(row) ==
    LET best == MaxOfSet({ row[k] : k \in ActionKinds })
        i == CHOOSE j \in DOMAIN ActionOrder :
                /\ row[ActionOrder[j]] = best
                /\ \A k \in (j + 1)..Len(ActionOrder) : row[ActionOrder[k]] # best
    IN  ActionOrder[i]

\* max(q_values, key=q_values.get): the first kind, in enum order, of
\* greatest value.
BestAction(row) ==
    LET best == MaxOfSet({ row[k] : k \in ActionKinds })
        i == CHOOSE j \in DOMAIN ActionOrder :
                /\ row[ActionOrder[j]] = best
                /\ \A k \in 1..(j - 1) : row[ActionOrder[k]] # best
    IN  ActionOrder[i]

\* choose_action(state, force_exploration) on the state's hash s; draw is
\* random.random(), pick is random.choice(action_types).
ChooseAction(qt, st, hp, s, force, draw, pick) ==
    IF force \/ draw < hp.epsilon
    THEN \* explore
        LET st1 == [st EXCEPT !.exploration_actions = @ + 1]
            g == GetQValue(qt, s, pick)
        IN  [q_table |-> g.q_table, learning_stats |-> st1, outcome |-> g.outcome,
             branch |-> "explore", kind |-> pick,
             confidence |-> Min2(Abs(g.value), QScale)]
    ELSE \* exploit
        LET qt1 == IF s \in DOMAIN qt THEN qt ELSE qt @@ (s :> ZeroRow)
        IN  IF DOMAIN qt1[s] # ActionKinds
            THEN [q_table |-> qt1, learning_stats |-> st, outcome |-> "KeyError",
                  branch |-> "exploit", kind |-> pick, confidence |-> 0]
            ELSE LET k == BestAction(qt1[s])
                 IN  [q_table |-> qt1, learning_stats |-> st, outcome |-> "ok",
                      branch |-> "exploit", kind |-> k,
                      confidence |-> Min2(Abs(qt1[s][k]), QScale)]

\* learn_from_experience(experience): the four fields are read first, in
\* order, then the update is made, then the statistics.
ExperienceFields == <<"state_hash", "action_type", "reward", "next_state_hash">>

FirstMissing(e) ==
    IF \E i \in DOMAIN ExperienceFields : ExperienceFields[i] \notin DOMAIN e
    THEN LET i == CHOOSE j \in DOMAIN ExperienceFields :
                    /\ ExperienceFields[j] \notin DOMAIN e
                    /\ \A k \in 1..(j - 1) : ExperienceFields[k] \in DOMAIN e
         IN  ExperienceFields[i]
    ELSE "none"

\* the line of learn_from_experience that raises before the update, if any
ReadFails(e) ==
    LET m == FirstMissing(e)
    IN  IF "state_hash" \notin DOMAIN e THEN "KeyError"
        ELSE IF "action_type" \notin DOMAIN e THEN "KeyError"
        ELSE IF e.action_type \notin ActionKinds THEN "ValueError"
        ELSE IF m # "none" THEN "KeyError"
        ELSE "ok"

LearnFromExperience(qt, st, er, hp, e) ==
    IF ReadFails(e) # "ok"
    THEN [q_table |-> qt, learning_stats |-> st, episode_rewards |-> er,
          outcome |-> ReadFails(e), value |-> 0]
    ELSE
        LET u == UpdateQValue(qt, hp, e.state_hash, e.action_type, e.reward,
                              e.next_state_hash)
        IN  IF u.outcome # "ok"
            THEN [q_table |-> u.q_table, learning_stats |-> st, episode_rewards |-> er,
                  outcome |-> u.outcome, value |-> 0]
            ELSE
                LET r == e.reward.val
                    er1 == Append(er, r)
                    recent == LastN(er1, RollingWindow)
                    st1 == [st EXCEPT
                              !.total_actions = @ + 1,
                              !.successful_actions = IF r > 0 THEN @ + 1 ELSE @,
                              !.avg_reward = SumSeq(recent) \div Len(recent)]
                IN  [q_table |-> u.q_table, learning_stats |-> st1,
                     episode_rewards |-> er1, outcome |-> "ok",
                     value |-> u.q_table[e.state_hash][e.action_type]]

\* load_model_state(state_data)
LoadModelState(qt, st, hp, data) ==
    LET hyperparams == IF "hyperparameters" \in DOMAIN data
                       THEN data.hyperparameters ELSE EmptyDict
        field(name) == IF name \in DOMAIN hyperparams THEN hyperparams[name]
                       ELSE hp[name]
    IN  [q_table |-> IF "q_table" \in DOMAIN data THEN data.q_table ELSE EmptyDict,
         learning_stats |-> IF "learning_stats" \in DOMAIN data
                            THEN data.learning_stats ELSE st,
         hyper |-> [learning_rate |-> field("learning_rate"),
                    discount_factor |-> field("discount_factor"),
                    epsilon |-> field("epsilon")]]

----------------------------------------------------------------------------
(* State and QLearningAgent.get_state_hash.  A State is its views metric;  *)
(* to_vector normalises it to millions and get_state_hash keeps ten bins.   *)

States == { [views |-> v] : v \in {120000, 180000, 250000} }

ToVector(state) == [views |-> Min2(state.views, 1000000)]     \* times 1000000

GetStateHash(state) ==
    LET bin == (ToVector(state).views * 10) \div 1000000
    IN  IF bin = 1 THEN "h1" ELSE IF bin = 2 THEN "h2" ELSE "h0"

----------------------------------------------------------------------------
(* RLEngine *)

\* current_episode before decide_action and after process_feedback
NoEpisode == [open |-> FALSE]

\* new_metrics handed to process_feedback: metrics for which
\* calculate_reward plus the engagement bonus comes to `reward`, or metrics
\* holding a value that is no number, on which calculate_reward raises.
Feedbacks == { [numeric |-> TRUE, reward |-> r] : r \in Rewards } \cup { [numeric |-> FALSE] }

\* decide_action that leaves an episode already open in place
DecideActionKeepsOpenEpisode(ep, qt, st, hp, state, exploration_mode, draw, pick, now) ==
    LET c == ChooseAction(qt, st, hp, GetStateHash(state), exploration_mode, draw, pick)
    IN  [q_table |-> c.q_table, learning_stats |-> c.learning_stats,
         outcome |-> c.outcome, kind |-> c.kind, confidence |-> c.confidence,
         current_episode |->
            IF c.outcome = "ok" /\ ~ep.open
            THEN [open |-> TRUE, state |-> state,
                  action |-> [kind |-> c.kind, confidence |-> c.confidence],
                  start_time |-> now]
            ELSE ep]

\* decide_action(state, exploration_mode) at time now
DecideAction(ep, qt, st, hp, state, exploration_mode, draw, pick, now) ==
    LET c == ChooseAction(qt, st, hp, GetStateHash(state), exploration_mode, draw, pick)
    IN  [q_table |-> c.q_table, learning_stats |-> c.learning_stats,
         outcome |-> c.outcome, kind |-> c.kind, confidence |-> c.confidence,
         current_episode |->
            IF c.outcome = "ok"
            THEN [open |-> TRUE, state |-> state,
                  action |-> [kind |-> c.kind, confidence |-> c.confidence],
                  start_time |-> now]
            ELSE ep]

\* process_feedback that counts a call made with no episode open as an action
\* of reward zero and leaves an episode it has credited open
ProcessFeedbackWithoutGuard(ep, qt, st, er, hp, fb) ==
    IF ~ep.open
    THEN [current_episode |-> ep, q_table |-> qt,
          learning_stats |-> [st EXCEPT !.total_actions = @ + 1],
          episode_rewards |-> Append(er, 0), outcome |-> "ok", value |-> 0]
    ELSE IF ~fb.numeric
    THEN [current_episode |-> ep, q_table |-> qt, learning_stats |-> st,
          episode_rewards |-> er, outcome |-> "TypeError", value |-> 0]
    ELSE
        LET experience ==
                [state_hash |-> GetStateHash(ep.state), action_type |-> ep.action.kind,
                 reward |-> PyFloat(fb.reward), next_state_hash |-> EmptyHash]
            l == LearnFromExperience(qt, st, er, hp, experience)
        IN  [current_episode |-> ep,
             q_table |-> l.q_table, learning_stats |-> l.learning_stats,
             episode_rewards |-> l.episode_rewards, outcome |-> l.outcome,
             value |-> l.value]

\* process_feedback(new_metrics)
ProcessFeedback(ep, qt, st, er, hp, fb) ==
    IF ~ep.open
    THEN [current_episode |-> ep, q_table |-> qt, learning_stats |-> st,
          episode_rewards |-> er, outcome |-> "ok", value |-> 0]
    ELSE IF ~fb.numeric
    THEN [current_episode |-> ep, q_table |-> qt, learning_stats |-> st,
          episode_rewards |-> er, outcome |-> "TypeError", value |-> 0]
    ELSE
        LET experience ==
                [state_hash |-> GetStateHash(ep.state), action_type |-> ep.action.kind,
                 reward |-> PyFloat(fb.reward), next_state_hash |-> EmptyHash]
            l == LearnFromExperience(qt, st, er, hp, experience)
        IN  [current_episode |-> IF l.outcome = "ok" THEN NoEpisode ELSE ep,
             q_table |-> l.q_table, learning_stats |-> l.learning_stats,
             episode_rewards |-> l.episode_rewards, outcome |-> l.outcome,
             value |-> l.value]

----------------------------------------------------------------------------
(* YouTubeRewardCalculator.calculate_reward on the views metric, as         *)
(* process_feedback calls it with the hours elapsed since decide_action     *)

\* (after - before) / before of the views metric, times QScale: the metric is
\* absent afterwards, it fell by a tenth, it rose by a fifth
Improvements == { -QScale, -(QScale \div 10), QScale \div 5 }

\* np.tanh(improvement * 5), tabulated at the improvements above and at a
\* metric that tripled
TanhFiveTimes(improvement) ==
    IF improvement = -QScale THEN -((QScale * 9999) \div 10000)
    ELSE IF improvement < 0 THEN -((QScale * 4621) \div 10000)
    ELSE IF improvement >= 2 * QScale THEN (QScale * 9999) \div 10000
    ELSE (QScale * 7616) \div 10000

TimeFactor(hours) ==
    Max2(QScale \div 10, QScale - (((hours - 24) * QScale) \div 168))

CalculateReward(improvement, hours) ==
    LET weighted == (((TanhFiveTimes(improvement) * 25) \div 100) * TimeFactor(hours))
                        \div QScale
    IN  Max2(-QScale, Min2(weighted, QScale))

\* metric_weights, times HyperScale, in the order of the dict
MetricOrder == <<"views", "likes", "comments", "shares", "watch_time", "ctr">>
MetricWeights ==
    [views |-> 25, likes |-> 15, comments |-> 15, shares |-> 10, watch_time |-> 20,
     ctr |-> 15]

\* metrics.get(metric, 0.0)
MetricOrZero(metrics, metric) == IF metric \in DOMAIN metrics THEN metrics[metric] ELSE 0

\* total_reward of calculate_reward after the loop over metric_weights
TotalReward(metrics_before, metrics_after, time_elapsed_hours) ==
    LET Term(metric) ==
            LET before == MetricOrZero(metrics_before, metric)
                after == MetricOrZero(metrics_after, metric)
                weight == MetricWeights[metric]
            IN  IF before > 0
                THEN (((TanhFiveTimes(((after - before) * QScale) \div before) * weight)
                          \div HyperScale) * TimeFactor(time_elapsed_hours)) \div QScale
                ELSE IF after > 0 THEN (weight * QScale) \div (HyperScale * 10)
                ELSE 0
        total[i \in 0..Len(MetricOrder)] ==
            IF i = 0 THEN 0 ELSE total[i - 1] + Term(MetricOrder[i])
    IN  total[Len(MetricOrder)]

\* calculate_reward that returns total_reward as it is
CalculateRewardUnclipped(metrics_before, metrics_after, time_elapsed_hours) ==
    TotalReward(metrics_before, metrics_after, time_elapsed_hours)

\* calculate_reward(metrics_before, metrics_after, time_elapsed_hours)
CalculateRewardOfMetrics(metrics_before, metrics_after, time_elapsed_hours) ==
    Max2(-QScale, Min2(TotalReward(metrics_before, metrics_after, time_elapsed_hours),
                       QScale))

----------------------------------------------------------------------------
(* AgentSTM: the experiences of an agent in Redis, most recent first *)

\* store_experience(experience_data) at time now; data is a Python dict
StmStoreExperience(mem, data, now) ==
    LET experience ==
            [id |-> now, data |-> data,
             q_value |-> IF "q_value" \in DOMAIN data THEN data.q_value ELSE 0,
             reward |-> IF "reward" \in DOMAIN data THEN data.reward ELSE 0,
             action |-> IF "action" \in DOMAIN data THEN data.action ELSE "",
             state |-> data.state,
             ttl |-> StmTtl]
    IN  [stm |-> <<experience>> \o mem, id |-> now]

\* update_q_value that leaves the record as store_experience wrote it
StmUpdateQValueSkipped(mem, experience_id, new_q_value) ==
    mem

\* update_q_value(experience_id, new_q_value); a record whose key has
\* expired is not found
StmUpdateQValue(mem, experience_id, new_q_value) ==
    [i \in DOMAIN mem |->
        IF mem[i].id = experience_id /\ mem[i].ttl > 0
        THEN [mem[i] EXCEPT !.q_value = new_q_value, !.ttl = Max2(@, StmMinTtl)]
        ELSE mem[i]]

\* a key prefix that names no agent
StmKeyPrefixOfAll(agent_id) == <<"agent">>

\* key_prefix = f"agent:{agent_id}:stm", as its parts
StmKeyPrefix(agent_id) == <<"agent", agent_id, "stm">>

\* clear_agent_memory() of agent_id on the Redis that holds the lists of all
\* agents: keys(key_prefix + ":*") are deleted
StmClearAgentMemory(mems, agent_id) ==
    LET pattern == StmKeyPrefix(agent_id)
        Matched(b) == /\ Len(pattern) <= Len(StmKeyPrefix(b))
                      /\ SubSeq(StmKeyPrefix(b), 1, Len(pattern)) = pattern
    IN  [stm |-> [b \in DOMAIN mems |-> IF Matched(b) THEN <<>> ELSE mems[b]],
         value |-> \E b \in DOMAIN mems : Matched(b) /\ mems[b] # <<>>]

\* Redis after seconds have passed and the clock shows now: the key of a
\* record lives for its ttl, the list for StmTtl from the last lpush; the
\* id of an expired record stays in the list
StmExpire(mem, seconds, now) ==
    IF mem # <<>> /\ now - mem[1].id >= StmTtl * TicksPerSecond
    THEN <<>>
    ELSE [i \in DOMAIN mem |-> [mem[i] EXCEPT !.ttl = Max2(0, @ - seconds)]]

----------------------------------------------------------------------------
(* RLEnhancedAgent *)

NoSession == [active |-> FALSE]

\* requests that reach the wrapped endpoint, each with the input it carries
Requests == {"r1", "r2"}

RequestInput(r) == IF r = "r1" THEN [views |-> 120000] ELSE [views |-> 250000]

\* what the wrapped endpoint hands back: a response of some length, with or
\* without formatting marks, or an exception
Responses ==
    { [raised |-> FALSE, length |-> 40, formatted |-> FALSE],
      [raised |-> FALSE, length |-> 1500, formatted |-> TRUE],
      [raised |-> TRUE, length |-> 20, formatted |-> FALSE] }

\* int(datetime.now().timestamp())
Seconds(now) == now \div TicksPerSecond

\* start_session(user_request, input_data); state is
\* _create_state_from_input(input_data)
StartSession(ep, qt, st, hp, agent_name, user_request, state, draw, pick, now) ==
    LET d == DecideAction(ep, qt, st, hp, state, FALSE, draw, pick, now)
        session_id == [agent_name |-> agent_name, second |-> Seconds(now)]
    IN  [q_table |-> d.q_table, learning_stats |-> d.learning_stats,
         current_episode |-> d.current_episode, outcome |-> d.outcome,
         session_id |-> session_id,
         current_session |->
            [active |-> TRUE, session_id |-> session_id,
             user_request |-> user_request, state |-> state,
             recommended_action |-> [type |-> d.kind, confidence |-> d.confidence],
             start_time |-> now]]

AnalyzeResponseQuality(response, success) ==
    [success |-> IF success THEN QScale ELSE 0,
     response_length_score |-> Min2((response.length * QScale) \div 1000, QScale),
     structure_score |-> IF response.formatted THEN (QScale * 8) \div 10 ELSE QScale \div 2,
     completeness_score |-> IF response.length > 100 THEN (QScale * 9) \div 10
                            ELSE (QScale * 3) \div 10]

\* _calculate_reward(performance_metrics, success), seconds after start_time
SessionReward(pm, success, time_taken) ==
    IF ~success THEN -(QScale \div 2)
    ELSE LET base_reward == (pm.success + pm.response_length_score + pm.structure_score
                              + pm.completeness_score) \div 4
             time_bonus == Max2(0, QScale - ((time_taken * QScale) \div 60))
             total_reward == ((base_reward * 8) \div 10) + ((time_bonus * 2) \div 10)
         IN  Min2(Max2(total_reward, -QScale), QScale)

\* the fields of one RLEnhancedAgent, its engine and its memory
AgentFields(ag) ==
    [agent_name |-> ag, current_session |-> current_session[ag],
     current_episode |-> current_episode[ag], q_table |-> q_table[ag],
     learning_stats |-> learning_stats[ag], episode_rewards |-> episode_rewards[ag],
     hyper |-> hyper[ag], stm |-> stm[ag]]

\* the reward process_feedback computes from performance metrics: they hold
\* none of the weighted metrics, so each one the episode began with counts as lost
PerformanceFeedback(ep, now) ==
    LET hours == Seconds(now - ep.start_time) \div 3600
    IN  [numeric |-> TRUE,
         reward |-> IF ep.state.views > 0 THEN CalculateReward(-QScale, hours) ELSE 0]

\* process_result(agent_response, success) at time now; redis_up tells
\* whether Redis answers
ProcessResult(a, response, success, redis_up, now) ==
    IF ~a.current_session.active
    THEN [fields |-> a, outcome |-> "ok", summary |-> [error |-> "No active session"]]
    ELSE
        LET sess == a.current_session
            pm == AnalyzeResponseQuality(response, success)
            reward == SessionReward(pm, success, Seconds(now - sess.start_time))
            experience ==
                [session_id |-> sess.session_id, agent_name |-> a.agent_name,
                 user_request |-> sess.user_request, action |-> sess.recommended_action,
                 reward |-> reward, q_value |-> 0, state |-> sess.state,
                 success |-> success]
            fb == IF a.current_episode.open
                  THEN PerformanceFeedback(a.current_episode, now)
                  ELSE [numeric |-> TRUE, reward |-> 0]
            \* what is returned once store_experience returned `stored` and
            \* process_feedback returned `f`
            Outcome(stored, f) ==
                LET learned == [a EXCEPT !.stm = stored.stm,
                                         !.current_episode = f.current_episode,
                                         !.q_table = f.q_table,
                                         !.learning_stats = f.learning_stats,
                                         !.episode_rewards = f.episode_rewards]
                IN  IF f.outcome # "ok"
                    THEN [fields |-> learned, outcome |-> f.outcome,
                          summary |-> [error |-> "raised"]]
                    ELSE [fields |-> [learned EXCEPT
                                        !.stm = StmUpdateQValue(stored.stm, stored.id,
                                                                f.value),
                                        !.current_session = NoSession],
                          outcome |-> "ok",
                          summary |-> [session_id |-> sess.session_id,
                                       experience_id |-> stored.id,
                                       reward |-> reward, q_value |-> f.value]]
        IN  IF ~redis_up
            THEN [fields |-> a, outcome |-> "ConnectionError", summary |-> [error |-> "raised"]]
            ELSE TheOnly({ Outcome(stored, f) :
                             stored \in { StmStoreExperience(a.stm, experience, now) },
                             f \in { ProcessFeedback(a.current_episode, a.q_table,
                                                     a.learning_stats, a.episode_rewards,
                                                     a.hyper, fb) } })

----------------------------------------------------------------------------
(* MongoDB as both stores use it.  MongoClient(...) opens no connection     *)
(* when it is built, so it fails only on a URL it cannot be built from;     *)
(* every call on a collection raises when no server answers, and a call on  *)
(* a collection attribute that was never set raises AttributeError.         *)

Envs == [ltm_ok : BOOLEAN, central_ok : BOOLEAN]

\* the outcome of a call on a collection, before what it does
CollectionCall(has_db, mongo_up) ==
    IF ~has_db THEN "AttributeError"
    ELSE IF ~mongo_up THEN "ServerSelectionTimeoutError"
    ELSE "ok"

\* the positions of s in descending order of Key, equal keys in the order
\* they have in s
SortDescBy(s, Key(_)) ==
    LET before(i) == Cardinality({ j \in DOMAIN s :
                        \/ Key(s[j]) > Key(s[i])
                        \/ (Key(s[j]) = Key(s[i]) /\ j < i) })
    IN  [p \in DOMAIN s |-> s[CHOOSE i \in DOMAIN s : before(i) = p - 1]]

FirstN(s, n) == IF Len(s) <= n THEN s ELSE SubSeq(s, 1, n)

QOf(x) == x.q_value

\* q_value first, reward second, as one key
QThenReward(x) == (x.q_value * 4 * QScale) + x.reward

----------------------------------------------------------------------------
(* AgentLTM: l is [db, experiences, patterns, strategies] of one agent *)

NoStrategies == [n \in {} |-> [success_rate |-> 0]]

\* AgentLTM.__init__ under an environment
NewLtm(e) ==
    [db |-> e.ltm_ok, experiences |-> <<>>, patterns |-> <<>>,
     strategies |-> NoStrategies]

LtmReturn(l, outcome, value) == [ltm |-> l, outcome |-> outcome, value |-> value]

\* store_high_value_experience that replaces the record of the same stm_id
LtmStoreHighValueExperienceOnce(l, experience, mongo_up, now) ==
    LET Other(x) == x.stm_id # experience.id
    IN  IF ~l.db THEN LtmReturn(l, "ok", "connection_failed")
        ELSE IF ~mongo_up THEN LtmReturn(l, "ServerSelectionTimeoutError", "")
        ELSE LtmReturn(
                [l EXCEPT !.experiences =
                    Append(SelectSeq(@, Other),
                           [stm_id |-> experience.id, timestamp |-> now,
                            q_value |-> experience.q_value,
                            reward |-> experience.reward,
                            action |-> experience.action])],
                "ok", "inserted_id")

\* store_high_value_experience(experience), experience a record of AgentSTM
LtmStoreHighValueExperience(l, experience, mongo_up, now) ==
    IF ~l.db THEN LtmReturn(l, "ok", "connection_failed")
    ELSE IF ~mongo_up THEN LtmReturn(l, "ServerSelectionTimeoutError", "")
    ELSE LtmReturn(
            [l EXCEPT !.experiences =
                Append(@, [stm_id |-> experience.id, timestamp |-> now,
                           q_value |-> experience.q_value,
                           reward |-> experience.reward,
                           action |-> experience.action])],
            "ok", "inserted_id")

\* get_best_experiences(limit, q_threshold)
LtmGetBestExperiences(l, limit, q_threshold, mongo_up) ==
    IF ~l.db THEN LtmReturn(l, "ok", <<>>)
    ELSE IF ~mongo_up THEN LtmReturn(l, "ServerSelectionTimeoutError", <<>>)
    ELSE LET Matches(x) == x.q_value >= q_threshold
         IN  LtmReturn(l, "ok",
                FirstN(SortDescBy(SelectSeq(l.experiences, Matches), QThenReward),
                       limit))

\* find_similar_experiences(current_state, action, limit) on a state that
\* names neither video_category nor time_of_day
LtmFindSimilarExperiences(l, action, limit, mongo_up) ==
    IF ~l.db THEN LtmReturn(l, "ok", <<>>)
    ELSE IF ~mongo_up THEN LtmReturn(l, "ServerSelectionTimeoutError", <<>>)
    ELSE LET Matches(x) == x.action = action /\ x.q_value >= QScale \div 2
         IN  LtmReturn(l, "ok",
                FirstN(SortDescBy(SelectSeq(l.experiences, Matches), QOf), limit))

\* learn_pattern(pattern_data)
LtmLearnPattern(l, pattern_data, mongo_up, now) ==
    IF ~l.db THEN LtmReturn(l, "ok", "connection_failed")
    ELSE IF ~mongo_up THEN LtmReturn(l, "ServerSelectionTimeoutError", "")
    ELSE LtmReturn(
            [l EXCEPT !.patterns =
                Append(@, [timestamp |-> now, confidence |-> pattern_data.confidence])],
            "ok", "inserted_id")

\* get_relevant_patterns(current_context) on a context that names neither
\* video_type nor audience_segment
LtmGetRelevantPatterns(l, mongo_up) ==
    LET call == CollectionCall(l.db, mongo_up)
        Matches(x) == x.confidence >= (QScale * 6) \div 10
        Confidence(x) == x.confidence
    IN  IF call # "ok" THEN LtmReturn(l, call, <<>>)
        ELSE LtmReturn(l, "ok",
                FirstN(SortDescBy(SelectSeq(l.patterns, Matches), Confidence), 20))

\* update_strategy(strategy_name, performance_data)
LtmUpdateStrategy(l, strategy_name, performance_data, mongo_up) ==
    LET call == CollectionCall(l.db, mongo_up)
        strategy == [success_rate |-> performance_data.success_rate]
    IN  IF call # "ok" THEN LtmReturn(l, call, "")
        ELSE LtmReturn(
                [l EXCEPT !.strategies =
                    [n \in DOMAIN @ \cup {strategy_name} |->
                        IF n = strategy_name THEN strategy ELSE @[n]]],
                "ok",
                IF strategy_name \in DOMAIN l.strategies THEN "updated" ELSE "upserted_id")

\* get_best_strategies(limit): the names, which the model keeps as a set
LtmGetBestStrategies(l, mongo_up) ==
    LET call == CollectionCall(l.db, mongo_up)
    IN  IF call # "ok" THEN LtmReturn(l, call, {})
        ELSE LtmReturn(l, "ok", DOMAIN l.strategies)

\* get_agent_learning_stats()
LtmGetAgentLearningStats(l, mongo_up) ==
    LET call == CollectionCall(l.db, mongo_up)
        n == Len(l.experiences)
        IsHigh(x) == x.q_value >= (QScale * 8) \div 10
        qs == [i \in DOMAIN l.experiences |-> l.experiences[i].q_value]
        rs == [i \in DOMAIN l.experiences |-> l.experiences[i].reward]
    IN  IF call # "ok" THEN LtmReturn(l, call, EmptyDict)
        ELSE LtmReturn(l, "ok",
                [total_experiences |-> n,
                 high_value_experiences |-> Len(SelectSeq(l.experiences, IsHigh)),
                 avg_q_value |-> IF n = 0 THEN 0 ELSE SumSeq(qs) \div n,
                 avg_reward |-> IF n = 0 THEN 0 ELSE SumSeq(rs) \div n,
                 learned_patterns |-> Len(l.patterns),
                 active_strategies |-> Cardinality(DOMAIN l.strategies)])

\* a number of days on the clock
DaysOnClock(days) == days * 86400 * TicksPerSecond

\* cleanup_old_data that deletes by age alone
LtmCleanupOldDataByAge(l, days_old, mongo_up, now) ==
    LET call == CollectionCall(l.db, mongo_up)
        Kept(x) == ~(x.timestamp < now - DaysOnClock(days_old))
        kept == SelectSeq(l.experiences, Kept)
    IN  IF call # "ok" THEN LtmReturn(l, call, 0)
        ELSE LtmReturn([l EXCEPT !.experiences = kept], "ok",
                       Len(l.experiences) - Len(kept))

\* cleanup_old_data(days_old) at time now
LtmCleanupOldData(l, days_old, mongo_up, now) ==
    LET call == CollectionCall(l.db, mongo_up)
        Kept(x) == ~(x.timestamp < now - DaysOnClock(days_old)
                      /\ x.q_value < (QScale * 3) \div 10)
        kept == SelectSeq(l.experiences, Kept)
    IN  IF call # "ok" THEN LtmReturn(l, call, 0)
        ELSE LtmReturn([l EXCEPT !.experiences = kept], "ok",
                       Len(l.experiences) - Len(kept))

----------------------------------------------------------------------------
(* CentralMemoryDB: c is [connected, attempted, db] of one object, the      *)
(* fields _connected, _connection_attempted and `db is not None`; d holds   *)
(* the collections of the database, each in insertion order                 *)

NeverConnected == [connected |-> FALSE, attempted |-> FALSE, db |-> FALSE]

EmptyCentralDb ==
    [active_agents |-> <<>>, agent_synchronization |-> <<>>, global_insights |-> <<>>,
     collective_strategies |-> <<>>, cross_agent_patterns |-> <<>>,
     performance_leaderboard |-> <<>>]

CentralReturn(c, d, outcome, value) ==
    [conn |-> c, db |-> d, outcome |-> outcome, value |-> value]

\* _ensure_connection() under environment e
EnsureConnection(c, e) ==
    IF c.connected \/ c.attempted THEN c
    ELSE IF e.central_ok THEN [connected |-> TRUE, attempted |-> TRUE, db |-> TRUE]
    ELSE [connected |-> FALSE, attempted |-> TRUE, db |-> FALSE]

\* replace_one(filter, doc, upsert=True): the first document that matches is
\* replaced, a document is added when none matches
Upsert(coll, Matches(_), doc) ==
    IF \E i \in DOMAIN coll : Matches(coll[i])
    THEN LET first == CHOOSE i \in DOMAIN coll :
                        Matches(coll[i]) /\ \A j \in 1..(i - 1) : ~Matches(coll[j])
         IN  [coll EXCEPT ![first] = doc]
    ELSE Append(coll, doc)

HasMatch(coll, Matches(_)) == \E i \in DOMAIN coll : Matches(coll[i])

\* the members of a set of positions, in ascending order
Ascending(S) ==
    [p \in 1..Cardinality(S) |->
        CHOOSE i \in S : Cardinality({ j \in S : j < i }) = p - 1]

Concat(ss) ==
    LET acc[i \in 0..Len(ss)] == IF i = 0 THEN <<>> ELSE acc[i - 1] \o ss[i]
    IN  acc[Len(ss)]

\* the keys of a defaultdict filled from `entries`, in the order they were
\* first used
KeysInOrder(entries) ==
    LET firsts == { i \in DOMAIN entries :
                      \A j \in 1..(i - 1) : entries[j].action # entries[i].action }
        order == Ascending(firsts)
    IN  [p \in DOMAIN order |-> entries[order[p]].action]

Mean(values) == SumSeq(values) \div Len(values)

\* register_agent that inserts its document whatever is there
CentralRegisterAgentInserting(c, d, e, agent_id, mongo_up) ==
    LET c1 == EnsureConnection(c, e)
    IN  IF ~c1.db THEN CentralReturn(c1, d, "ok", "connection_failed")
        ELSE IF ~mongo_up THEN CentralReturn(c1, d, "ServerSelectionTimeoutError", "")
        ELSE CentralReturn(c1,
                [d EXCEPT !.active_agents =
                    Append(@, [agent_id |-> agent_id, status |-> "active",
                               total_contributions |-> 0])],
                "ok", "upserted_id")

\* register_agent(agent_id, agent_type, capabilities)
CentralRegisterAgent(c, d, e, agent_id, mongo_up) ==
    LET c1 == EnsureConnection(c, e)
        IsAgent(x) == x.agent_id = agent_id
        agent_doc == [agent_id |-> agent_id, status |-> "active",
                      total_contributions |-> 0]
    IN  IF ~c1.db THEN CentralReturn(c1, d, "ok", "connection_failed")
        ELSE IF ~mongo_up THEN CentralReturn(c1, d, "ServerSelectionTimeoutError", "")
        ELSE CentralReturn(c1,
                [d EXCEPT !.active_agents = Upsert(@, IsAgent, agent_doc)],
                "ok",
                IF HasMatch(d.active_agents, IsAgent) THEN "updated" ELSE "upserted_id")

\* _generate_global_insights that inserts what it mined beside the insights
\* of earlier syncs
GenerateGlobalInsightsInserting(insights, agent_id, best_experiences, now) ==
    LET IsHigh(x) == x.q_value >= (QScale * 8) \div 10
        high == SelectSeq(best_experiences, IsHigh)
        Enough(action) == LET Of(x) == x.action = action
                          IN  Len(SelectSeq(high, Of)) >= 3
        actions == SelectSeq(KeysInOrder(high), Enough)
        RewardsOf(action) == LET Of(x) == x.action = action
                                 mine == SelectSeq(high, Of)
                             IN  [i \in DOMAIN mine |-> mine[i].reward]
    IN  insights \o
          [p \in DOMAIN actions |->
              [insight_type |-> "action_performance", action_type |-> actions[p],
               average_reward |-> Mean(RewardsOf(actions[p])),
               confidence |-> Min2((Len(RewardsOf(actions[p])) * QScale) \div 10, QScale),
               sample_size |-> Len(RewardsOf(actions[p])),
               contributing_agent |-> agent_id,
               last_updated |-> now, applicable_agents |-> "all"]]

\* _process_agent_experiences and _generate_global_insights: the insights
\* drawn from the best experiences an agent synced, written to global_insights
GenerateGlobalInsights(insights, agent_id, best_experiences, now) ==
    LET IsHigh(x) == x.q_value >= (QScale * 8) \div 10
        high == SelectSeq(best_experiences, IsHigh)
        actions == KeysInOrder(high)
        \* global_insights after the action_performance loop reached key p
        perf[p \in 0..Len(actions)] ==
            IF p = 0 THEN insights
            ELSE LET Of(x) == x.action = actions[p]
                     mine == SelectSeq(high, Of)
                     rewards == [i \in DOMAIN mine |-> mine[i].reward]
                     Same(x) == /\ "insight_type" \in DOMAIN x
                                /\ x.insight_type = "action_performance"
                                /\ x.action_type = actions[p]
                 IN  IF Len(rewards) >= 3
                     THEN Upsert(perf[p - 1], Same,
                            [insight_type |-> "action_performance",
                             action_type |-> actions[p],
                             average_reward |-> Mean(rewards),
                             confidence |-> Min2((Len(rewards) * QScale) \div 10, QScale),
                             sample_size |-> Len(rewards),
                             contributing_agent |-> agent_id,
                             last_updated |-> now, applicable_agents |-> "all"])
                     ELSE perf[p - 1]
        \* and after the timing loop reached key p; every state holds an hour
        timing[p \in 0..Len(actions)] ==
            IF p = 0 THEN perf[Len(actions)]
            ELSE LET Of(x) == x.action = actions[p]
                     hours == Len(SelectSeq(high, Of))
                     Same(x) == /\ "insight_type" \in DOMAIN x
                                /\ x.insight_type = "timing_optimization"
                                /\ x.action_type = actions[p]
                 IN  IF hours >= 5
                     THEN Upsert(timing[p - 1], Same,
                            [insight_type |-> "timing_optimization",
                             action_type |-> actions[p], optimal_hour |-> 12,
                             confidence |-> (hours * QScale) \div 20,
                             sample_size |-> hours,
                             contributing_agent |-> agent_id,
                             last_updated |-> now, applicable_agents |-> "all"])
                     ELSE timing[p - 1]
    IN  timing[Len(actions)]

\* what get_relevant_insights_for_agent reads once the connection is there
RelevantInsights(d, agent_id) ==
    LET IsAgent(x) == x.agent_id = agent_id
        Applies(x) == /\ "applicable_agents" \in DOMAIN x
                      /\ x.applicable_agents = "all"
                      /\ x.confidence >= (QScale * 3) \div 10
        Proven(x) == x.success_rate >= (QScale * 6) \div 10
        Confidence(x) == x.confidence
        SuccessRate(x) == x.success_rate
    IN  IF ~HasMatch(d.active_agents, IsAgent)
        THEN [insights |-> <<>>, strategies |-> <<>>]
        ELSE [insights |->
                FirstN(SortDescBy(SelectSeq(d.global_insights, Applies), Confidence), 10),
              strategies |->
                FirstN(SortDescBy(SelectSeq(d.collective_strategies, Proven),
                                  SuccessRate), 5),
              total_insights_available |-> Len(SelectSeq(d.global_insights, Applies))]

\* get_relevant_insights_for_agent(agent_id)
CentralGetRelevantInsights(c, d, e, agent_id, mongo_up) ==
    LET c1 == EnsureConnection(c, e)
    IN  IF ~c1.db THEN CentralReturn(c1, d, "ok", EmptyDict)
        ELSE IF ~mongo_up
        THEN CentralReturn(c1, d, "ServerSelectionTimeoutError", EmptyDict)
        ELSE CentralReturn(c1, d, "ok", RelevantInsights(d, agent_id))

\* sync_agent_data(agent_id, ltm_data) at time now
CentralSyncAgentData(c, d, e, agent_id, ltm_data, mongo_up, now) ==
    LET c1 == EnsureConnection(c, e)
        IsAgent(x) == x.agent_id = agent_id
        sync_doc == [agent_id |-> agent_id, last_sync |-> now,
                     ltm_summary |-> ltm_data,
                     contribution_count |-> ltm_data.total_experiences]
        d1 == [d EXCEPT
                 !.agent_synchronization = Upsert(@, IsAgent, sync_doc),
                 !.global_insights =
                    GenerateGlobalInsights(@, agent_id, ltm_data.best_experiences, now),
                 !.active_agents =
                    [i \in DOMAIN d.active_agents |->
                        IF /\ IsAgent(d.active_agents[i])
                           /\ \A j \in 1..(i - 1) : ~IsAgent(d.active_agents[j])
                        THEN [agent_id |-> agent_id,
                              status |-> d.active_agents[i].status,
                              total_contributions |->
                                 d.active_agents[i].total_contributions + 1]
                        ELSE d.active_agents[i]]]
    IN  IF ~c1.db
        THEN CentralReturn(c1, d, "ok",
                [insights |-> <<>>, strategies |-> <<>>, error |-> "connection_failed"])
        ELSE IF ~mongo_up
        THEN CentralReturn(c1, d, "ServerSelectionTimeoutError", EmptyDict)
        ELSE CentralReturn(c1, d1, "ok", RelevantInsights(d1, agent_id))

\* update_collective_strategy(strategy_data)
CentralUpdateCollectiveStrategy(c, d, strategy_data, mongo_up, now) ==
    LET call == CollectionCall(c.db, mongo_up)
        Same(x) == x.strategy_name = strategy_data.name
        strategy == [strategy_name |-> strategy_data.name,
                     success_rate |-> IF "success_rate" \in DOMAIN strategy_data
                                      THEN strategy_data.success_rate ELSE 0,
                     last_updated |-> now]
    IN  IF "name" \notin DOMAIN strategy_data THEN CentralReturn(c, d, "KeyError", "")
        ELSE IF call # "ok" THEN CentralReturn(c, d, call, "")
        ELSE CentralReturn(c,
                [d EXCEPT !.collective_strategies = Upsert(@, Same, strategy)],
                "ok",
                IF HasMatch(d.collective_strategies, Same) THEN "updated"
                ELSE "upserted_id")

\* detect_cross_agent_patterns() at time now
CentralDetectCrossAgentPatterns(c, d, mongo_up, now) ==
    LET call == CollectionCall(c.db, mongo_up)
        Recent(x) == x.last_sync >= now - DaysOnClock(1)
        recent_syncs == SelectSeq(d.agent_synchronization, Recent)
        IsHigh(x) == x.q_value >= (QScale * 8) \div 10 /\ x.action # ""
        \* common_actions, every key's list laid end to end
        results ==
            Concat([s \in DOMAIN recent_syncs |->
                LET best == SelectSeq(recent_syncs[s].ltm_summary.best_experiences, IsHigh)
                IN  [i \in DOMAIN best |->
                        [agent_id |-> recent_syncs[s].agent_id,
                         action |-> best[i].action, reward |-> best[i].reward,
                         q_value |-> best[i].q_value]]])
        actions == KeysInOrder(results)
        PatternOf(action) ==
            LET Of(x) == x.action = action
                agent_results == SelectSeq(results, Of)
            IN  [pattern_type |-> "cross_agent_success", action_type |-> action,
                 supporting_agents |->
                    [i \in DOMAIN agent_results |-> agent_results[i].agent_id],
                 pattern_strength |->
                    (Len(agent_results) * QScale) \div Len(recent_syncs),
                 avg_reward |->
                    Mean([i \in DOMAIN agent_results |-> agent_results[i].reward]),
                 avg_q_value |->
                    Mean([i \in DOMAIN agent_results |-> agent_results[i].q_value]),
                 confidence |-> Min2((Len(agent_results) * QScale) \div 5, QScale),
                 discovered_at |-> now]
        Found(action) ==
            LET Of(x) == x.action = action IN Len(SelectSeq(results, Of)) >= 3
        found == SelectSeq(actions, Found)
        cross_patterns == [i \in DOMAIN found |-> PatternOf(found[i])]
        stored[p \in 0..Len(found)] ==
            IF p = 0 THEN d.cross_agent_patterns
            ELSE LET Same(x) == x.action_type = found[p]
                 IN  Upsert(stored[p - 1], Same, cross_patterns[p])
    IN  IF call # "ok" THEN CentralReturn(c, d, call, <<>>)
        ELSE IF Len(recent_syncs) < 2 THEN CentralReturn(c, d, "ok", <<>>)
        ELSE CentralReturn(c, [d EXCEPT !.cross_agent_patterns = stored[Len(found)]],
                           "ok", cross_patterns)

\* the enumeration that numbers the sorted entries from 0
RankedFromZero(sorted) == [i \in DOMAIN sorted |-> [sorted[i] EXCEPT !.rank = i - 1]]

\* entry['rank'] = i + 1 over enumerate(leaderboard_data), sorted
Ranked(sorted) == [i \in DOMAIN sorted |-> [sorted[i] EXCEPT !.rank = i]]

\* update_performance_leaderboard() at time now
CentralUpdatePerformanceLeaderboard(c, d, mongo_up, now) ==
    LET call == CollectionCall(c.db, mongo_up)
        Synced(a) == LET Of(x) == x.agent_id = a.agent_id
                     IN  a.status = "active" /\ HasMatch(d.agent_synchronization, Of)
        ranked_agents == SelectSeq(d.active_agents, Synced)
        EntryOf(a) ==
            LET Of(x) == x.agent_id = a.agent_id
                summary == SelectSeq(d.agent_synchronization, Of)[1].ltm_summary
                total == summary.total_experiences
                experience_score == Min2((total * QScale) \div 1000, QScale)
                quality_score == (summary.avg_q_value + summary.avg_reward) \div 2
                consistency_score ==
                    Min2((summary.high_value_experiences * QScale) \div Max2(total, 1),
                         QScale)
            IN  [agent_id |-> a.agent_id,
                 overall_score |-> ((experience_score * 3) + (quality_score * 5)
                                      + (consistency_score * 2)) \div 10,
                 total_experiences |-> total,
                 avg_q_value |-> summary.avg_q_value,
                 avg_reward |-> summary.avg_reward,
                 high_value_experiences |-> summary.high_value_experiences,
                 last_updated |-> now, rank |-> 0]
        Score(x) == x.overall_score
        sorted == SortDescBy([i \in DOMAIN ranked_agents |-> EntryOf(ranked_agents[i])],
                             Score)
        leaderboard_data == Ranked(sorted)
        stored[p \in 0..Len(sorted)] ==
            IF p = 0 THEN d.performance_leaderboard
            ELSE LET Same(x) == x.agent_id = leaderboard_data[p].agent_id
                 IN  Upsert(stored[p - 1], Same, leaderboard_data[p])
    IN  IF call # "ok" THEN CentralReturn(c, d, call, EmptyDict)
        ELSE CentralReturn(c,
                [d EXCEPT !.performance_leaderboard = stored[Len(sorted)]], "ok",
                [leaderboard |-> leaderboard_data, total_agents |-> Len(sorted)])

\* get_global_statistics()
CentralGetGlobalStatistics(c, d, e, mongo_up) ==
    LET c1 == EnsureConnection(c, e)
        Active(x) == x.status = "active"
    IN  IF ~c1.db
        THEN CentralReturn(c1, d, "ok", [error |-> "Database connection unavailable"])
        ELSE IF ~mongo_up
        THEN CentralReturn(c1, d, "ServerSelectionTimeoutError", EmptyDict)
        ELSE CentralReturn(c1, d, "ok",
                [total_active_agents |-> Len(SelectSeq(d.active_agents, Active)),
                 total_global_insights |-> Len(d.global_insights),
                 collective_strategies |-> Len(d.collective_strategies),
                 cross_agent_patterns |-> Len(d.cross_agent_patterns),
                 recent_syncs_24h |-> Len(d.agent_synchronization)])

\* broadcast_urgent_insight(insight, target_agents); target_agents is a
\* sequence of agent ids or "None"
CentralBroadcastUrgentInsight(c, d, insight, target_agents, mongo_up, now) ==
    LET call == CollectionCall(c.db, mongo_up)
        Active(x) == x.status = "active"
        active == SelectSeq(d.active_agents, Active)
        targets == IF target_agents = <<"None">>
                   THEN [i \in DOMAIN active |-> active[i].agent_id]
                   ELSE target_agents
        urgent_insight == [type |-> insight.type, agent_id |-> insight.agent_id,
                           avg_reward |-> insight.avg_reward, priority |-> "urgent",
                           broadcast_time |-> now, target_agents |-> targets]
    IN  IF call # "ok" THEN CentralReturn(c, d, call, 0)
        ELSE CentralReturn(c, [d EXCEPT !.global_insights = Append(@, urgent_insight)],
                           "ok", Len(targets))

----------------------------------------------------------------------------
(* AgentMemoryIntegrator: the five phases of run_integration_cycle.  Each   *)
(* returns its outcome, the entry it adds to `results` and what it changed. *)

\* IntegrationConfig
StmToLtmThreshold == (QScale * 7) \div 10
InsightConfidenceThreshold == (QScale * 6) \div 10
UrgentRewardThreshold == (QScale * 9) \div 10
MaxStmExperiences == 1000

\* AgentSTM.get_recent_experiences(limit) and get_high_q_experiences
\* get_recent_experiences that reads the list from its tail
StmGetRecentExperiencesOldestFirst(mem, limit) ==
    LET Live(x) == x.ttl > 0
    IN  SelectSeq(LastN(mem, limit), Live)

\* get_recent_experiences(limit), limit >= 0: lrange(0, limit - 1) is the
\* whole list when limit is 0; the ids whose key has expired are skipped
StmGetRecentExperiences(mem, limit) ==
    LET Live(x) == x.ttl > 0
    IN  SelectSeq(IF limit = 0 THEN mem ELSE FirstN(mem, limit), Live)

\* a reader that takes the whole list
StmWindowOfAll(limit) == 0

\* get_recent_experiences(limit * 2) of get_high_q_experiences
StmWindow(limit) == limit * 2

\* get_high_q_experiences that returns all it filtered
StmGetHighQExperiencesUncut(mem, q_threshold, limit) ==
    LET Matches(x) == x.q_value >= q_threshold
    IN  SortDescBy(SelectSeq(StmGetRecentExperiences(mem, StmWindow(limit)), Matches),
                   QOf)

\* get_high_q_experiences(q_threshold, limit)
StmGetHighQExperiences(mem, q_threshold, limit) ==
    LET Matches(x) == x.q_value >= q_threshold
    IN  FirstN(SortDescBy(SelectSeq(StmGetRecentExperiences(mem, StmWindow(limit)),
                                    Matches),
                          QOf), limit)

\* AgentSTM.get_agent_stats()
StmGetAgentStats(mem) ==
    LET experiences == StmGetRecentExperiences(mem, 100)
        q_values == [i \in DOMAIN experiences |-> experiences[i].q_value]
        rewards == [i \in DOMAIN experiences |-> experiences[i].reward]
        IsHigh(q) == q >= (QScale * 7) \div 10
    IN  IF Len(experiences) = 0
        THEN [total_experiences |-> 0, avg_q_value |-> 0, avg_reward |-> 0]
        ELSE [total_experiences |-> Len(mem), avg_q_value |-> Mean(q_values),
              avg_reward |-> Mean(rewards),
              high_q_count |-> Len(SelectSeq(q_values, IsHigh))]

\* phase 1, _process_stm_data(); every read of Redis raises when it is down
ProcessStmData(mem, redis_up) ==
    LET high == StmGetHighQExperiences(mem, StmToLtmThreshold, 100)
    IN  IF ~redis_up THEN [outcome |-> "ConnectionError"]
        ELSE [outcome |-> "ok",
              result |-> [total_stm_experiences |->
                             Len(StmGetRecentExperiences(mem, MaxStmExperiences)),
                          high_value_experiences |-> high,
                          agent_stats |-> StmGetAgentStats(mem),
                          promotion_candidates |-> Len(high)]]

\* phase 2, _promote_to_ltm(high_value_experiences)
PromoteToLtm(l, high_value_experiences, mongo_up, now) ==
    LET \* the store, promoted_count and the errors after i experiences
        after[i \in 0..Len(high_value_experiences)] ==
            IF i = 0 THEN [ltm |-> l, promoted_count |-> 0, errors |-> <<>>]
            ELSE LET before == after[i - 1]
                     s == LtmStoreHighValueExperience(before.ltm,
                              high_value_experiences[i], mongo_up, now)
                 IN  IF s.outcome = "ok"
                     THEN [ltm |-> s.ltm, promoted_count |-> before.promoted_count + 1,
                           errors |-> before.errors]
                     ELSE [ltm |-> before.ltm, promoted_count |-> before.promoted_count,
                           errors |-> Append(before.errors,
                                        [experience_id |-> high_value_experiences[i].id,
                                         error |-> s.outcome])]
        done == after[Len(high_value_experiences)]
    IN  [outcome |-> "ok", ltm |-> done.ltm,
         result |-> [promoted_count |-> done.promoted_count, errors |-> done.errors,
                     success_rate |->
                        IF Len(high_value_experiences) = 0 THEN QScale
                        ELSE (done.promoted_count * QScale)
                                \div Len(high_value_experiences)]]

\* phase 3, _sync_with_central_memory()
SyncWithCentralMemory(l, c, d, e, agent_id, mongo_up, now) ==
    LET stats == LtmGetAgentLearningStats(l, mongo_up)
        best == LtmGetBestExperiences(l, 50, (QScale * 8) \div 10, mongo_up)
        ltm_summary ==
            [total_experiences |-> stats.value.total_experiences,
             high_value_experiences |-> stats.value.high_value_experiences,
             avg_q_value |-> stats.value.avg_q_value,
             avg_reward |-> stats.value.avg_reward,
             learned_patterns |-> stats.value.learned_patterns,
             active_strategies |-> stats.value.active_strategies,
             best_experiences |-> best.value, sync_timestamp |-> now]
        sync == CentralSyncAgentData(c, d, e, agent_id, ltm_summary, mongo_up, now)
    IN  IF stats.outcome # "ok" THEN [outcome |-> stats.outcome, conn |-> c, db |-> d]
        ELSE IF best.outcome # "ok" THEN [outcome |-> best.outcome, conn |-> c, db |-> d]
        ELSE IF sync.outcome # "ok"
        THEN [outcome |-> sync.outcome, conn |-> sync.conn, db |-> sync.db]
        ELSE [outcome |-> "ok", conn |-> sync.conn, db |-> sync.db,
              result |-> sync.value]

\* central_results.get(key, [])
GetOrEmpty(dict, key) == IF key \in DOMAIN dict THEN dict[key] ELSE <<>>

\* phase 4, _apply_global_insights(insights)
ApplyGlobalInsights(insights) ==
    LET Applied(x) ==
            /\ x.confidence >= InsightConfidenceThreshold
            /\ \/ x.insight_type = "action_performance" /\ x.average_reward > QScale \div 2
               \/ x.insight_type = "timing_optimization"
        applied == SelectSeq(insights, Applied)
    IN  [outcome |-> "ok",
         result |-> [total_insights_received |-> Len(insights),
                     applied_insights |->
                        [i \in DOMAIN applied |->
                            [action_type |-> applied[i].action_type,
                             action |-> IF applied[i].insight_type = "action_performance"
                                        THEN "encourage_action"
                                        ELSE "timing_preference"]],
                     application_rate |->
                        IF Len(insights) = 0 THEN 0
                        ELSE (Len(applied) * QScale) \div Len(insights)]]

\* phase 5, _update_learning_strategy(strategies)
UpdateLearningStrategy(l, strategies, mongo_up) ==
    LET Adopted(x) == x.success_rate >= (QScale * 7) \div 10
        adopted == SelectSeq(strategies, Adopted)
        \* the store and the outcome after i strategies were adopted
        after[i \in 0..Len(adopted)] ==
            IF i = 0 THEN [ltm |-> l, outcome |-> "ok"]
            ELSE LET before == after[i - 1]
                     u == LtmUpdateStrategy(before.ltm, adopted[i].strategy_name,
                              [success_rate |-> adopted[i].success_rate], mongo_up)
                 IN  IF before.outcome # "ok" THEN before
                     ELSE [ltm |-> u.ltm, outcome |-> u.outcome]
        done == after[Len(adopted)]
    IN  IF done.outcome # "ok" THEN [outcome |-> done.outcome, ltm |-> done.ltm]
        ELSE [outcome |-> "ok", ltm |-> done.ltm,
              result |-> [available_strategies |-> Len(strategies),
                          adopted_strategies |->
                             [i \in DOMAIN adopted |->
                                 [strategy_name |-> adopted[i].strategy_name,
                                  success_rate |-> adopted[i].success_rate,
                                  action |-> "adopted"]],
                          adoption_rate |->
                             IF Len(strategies) = 0 THEN 0
                             ELSE (Len(adopted) * QScale) \div Len(strategies)]]

\* a phase the try block never reached
NotRun == [outcome |-> "not_run"]

Returned(phase) == phase.outcome = "ok"

PhaseKeys ==
    <<"stm_processing", "ltm_promotion", "central_sync", "insight_application",
      "strategy_update">>

\* the phases that returned, counted from the first
Completed(phases) ==
    Cardinality({ k \in DOMAIN phases : \A i \in 1..k : Returned(phases[i]) })

\* run_integration_cycle that reports a failed cycle without the phases
\* that had returned
CycleResultsAllOrNothing(phases) ==
    LET done == Completed(phases)
    IN  IF done = Len(phases)
        THEN [key \in { PhaseKeys[i] : i \in 1..done } \cup {"cycle_performance"} |->
                IF key = "cycle_performance" THEN [success |-> TRUE]
                ELSE phases[CHOOSE i \in 1..done : PhaseKeys[i] = key].result]
        ELSE [error |-> phases[done + 1].outcome,
              cycle_performance |-> [success |-> FALSE]]

\* the dict run_integration_cycle returns, from the five phases in order
CycleResults(phases) ==
    LET done == Completed(phases)
        keys == { PhaseKeys[i] : i \in 1..done } \cup {"cycle_performance"}
                  \cup (IF done < Len(phases) THEN {"error"} ELSE {})
    IN  [key \in keys |->
            IF key = "error" THEN phases[done + 1].outcome
            ELSE IF key = "cycle_performance" THEN [success |-> done = Len(phases)]
            ELSE phases[CHOOSE i \in 1..done : PhaseKeys[i] = key].result]

----------------------------------------------------------------------------
(* CollectiveIntelligenceOrchestrator: steps 4 and 5 of run_collective_cycle *)

\* _check_urgent_insights() with agent_integrators holding `agents`: the
\* insights broadcast, and the database after them
CheckUrgentInsights(c, d, agents, mongo_up, now) ==
    LET call == CollectionCall(c.db, mongo_up)
        Updated(x) == x.last_updated
        Urgent(x) == x.avg_reward >= UrgentRewardThreshold
        urgent == SelectSeq(FirstN(SortDescBy(d.performance_leaderboard, Updated), 10),
                            Urgent)
        InsightOf(perf) ==
            [type |-> "exceptional_performance", agent_id |-> perf.agent_id,
             avg_reward |-> perf.avg_reward, priority |-> "high", timestamp |-> now]
        after[i \in 0..Len(urgent)] ==
            IF i = 0 THEN d
            ELSE LET Other(a) == a # urgent[i].agent_id
                 IN  CentralBroadcastUrgentInsight(c, after[i - 1], InsightOf(urgent[i]),
                        SelectSeq(agents, Other), mongo_up, now).db
    IN  IF call # "ok" THEN CentralReturn(c, d, call, <<>>)
        ELSE CentralReturn(c, after[Len(urgent)], "ok",
                           [i \in DOMAIN urgent |-> InsightOf(urgent[i])])

\* _generate_collective_report(): ltms holds the outcome of
\* get_integration_status() of each integrator, whose failure is swallowed
GenerateCollectiveReport(c, d, e, ltms, redis_up, mongo_up, stats) ==
    LET global_stats == CentralGetGlobalStatistics(c, d, e, mongo_up)
        status == [i \in DOMAIN ltms |->
                     IF ~redis_up THEN LtmReturn(ltms[i], "ConnectionError", EmptyDict)
                     ELSE LtmGetAgentLearningStats(ltms[i], mongo_up)]
        Answered(s) == s.outcome = "ok"
        answered == SelectSeq(status, Answered)
        total_experiences ==
            SumSeq([i \in DOMAIN answered |-> answered[i].value.total_experiences])
        total_high_value ==
            SumSeq([i \in DOMAIN answered |-> answered[i].value.high_value_experiences])
        scores == [i \in DOMAIN answered |->
                     (answered[i].value.avg_q_value + answered[i].value.avg_reward) \div 2]
    IN  IF global_stats.outcome # "ok"
        THEN CentralReturn(global_stats.conn, d, global_stats.outcome, EmptyDict)
        ELSE CentralReturn(global_stats.conn, d, "ok",
                [collective_metrics |->
                    [total_agents |-> Len(ltms),
                     total_experiences_collected |-> total_experiences,
                     total_high_value_experiences |-> total_high_value,
                     collective_performance_score |->
                        IF Len(scores) = 0 THEN 0 ELSE Mean(scores),
                     knowledge_quality_ratio |->
                        (total_high_value * QScale) \div Max2(total_experiences, 1)],
                 global_statistics |-> global_stats.value,
                 system_health |->
                    [all_agents_active |-> Len(ltms) = Len(scores),
                     integration_success_rate |->
                        (stats.successful_cycles * QScale)
                            \div Max2(stats.total_cycles, 1)]])

\* the agents asyncio.gather ran whose result is no exception, in order
NotExceptions(agents, individual) ==
    LET Kept(i) == individual[i].raised = FALSE
    IN  { i \in DOMAIN agents : Kept(i) }

----------------------------------------------------------------------------
(* The state after construction: QLearningAgent.__init__, RLEngine.__init__ *)


NoCall == [op |-> "init", outcome |-> "ok"]

InitAgent ==
    /\ q_table = [ag \in Agents |-> EmptyDict]
    /\ learning_stats = [ag \in Agents |-> InitialStats]
    /\ episode_rewards = [ag \in Agents |-> <<>>]
    /\ hyper = [ag \in Agents |-> DefaultHyper]

InitEngine ==
    /\ current_episode = [ag \in Agents |-> NoEpisode]
    /\ discarded = [ag \in Agents |-> NoEpisode]

InitWrapper ==
    /\ current_session = [ag \in Agents |-> NoSession]
    /\ stm = [ag \in Agents |-> <<>>]
    /\ req = [r \in Requests |-> [pc |-> "idle"]]

\* the objects that hold a CentralMemoryDB: the integrator of each agent, the
\* RLAgentRegistry, the CollectiveIntelligenceOrchestrator, the YouTubeAgentSystem
CentralOwners == IntegratorAgents \cup {"registry", "orchestrator", "system"}

\* the owners that have called register_agent by the end of construction
RegisteringOwners == IntegratorAgents \cup {"registry"}

RegisteredAtStart == IntegratorOrder \o <<WrappedAgent>>

NoIntegrations ==
    [total_integrations |-> 0, stm_to_ltm_promotions |-> 0, central_syncs |-> 0,
     insights_received |-> 0, strategies_updated |-> 0]

\* CollectiveIntelligenceOrchestrator.__init__; pending and individual are
\* the coroutines asyncio.gather has yet to run and the results it has
OrchestratorIdle ==
    [pc |-> "idle", pending |-> <<>>, individual |-> <<>>,
     stats |-> [total_cycles |-> 0, successful_cycles |-> 0,
                cross_agent_patterns_detected |-> 0,
                urgent_insights_broadcasted |-> 0]]

\* construction under environment e, every register_agent answered
InitStores(e) ==
    /\ env = e
    /\ central = [o \in CentralOwners |->
                    IF o \in RegisteringOwners
                    THEN EnsureConnection(NeverConnected, e) ELSE NeverConnected]
    /\ central_db =
          [EmptyCentralDb EXCEPT !.active_agents =
              IF e.central_ok
              THEN [i \in DOMAIN RegisteredAtStart |->
                      [agent_id |-> RegisteredAtStart[i], status |-> "active",
                       total_contributions |-> 0]]
              ELSE <<>>]
    /\ ltm = [ag \in Agents |-> NewLtm(e)]

InitCycle ==
    /\ integration_stats = [ag \in Agents |-> NoIntegrations]
    /\ orch = OrchestratorIdle

AllReachable == [ltm_ok |-> TRUE, central_ok |-> TRUE]

Init ==
    /\ InitAgent
    /\ InitEngine
    /\ InitWrapper
    /\ InitStores(AllReachable)
    /\ InitCycle
    /\ last = NoCall
    /\ nops = 0

\* construction under any environment
InitAnyEnv ==
    /\ InitAgent
    /\ InitEngine
    /\ InitWrapper
    /\ \E e \in Envs : InitStores(e)
    /\ InitCycle
    /\ last = NoCall
    /\ nops = 0

----------------------------------------------------------------------------
(* SpecQ: a QLearningAgent driven through its own methods *)

\* experience dicts handed to learn_from_experience
WellFormed ==
    { [state_hash |-> s, action_type |-> a, reward |-> PyFloat(r), next_state_hash |-> ns] :
        s \in StateHashes, a \in InputKinds, r \in Rewards, ns \in NextHashes }

Malformed ==
    { [state_hash |-> "h1", action_type |-> "title_optimization", reward |-> PyFloat(QScale)],
      [state_hash |-> "h1", action_type |-> "title_optimization", next_state_hash |-> EmptyHash],
      [state_hash |-> "h2", reward |-> PyFloat(QScale), next_state_hash |-> EmptyHash],
      [action_type |-> "title_optimization", reward |-> PyFloat(QScale),
       next_state_hash |-> EmptyHash],
      [state_hash |-> "h1", action_type |-> "make_it_viral", reward |-> PyFloat(QScale),
       next_state_hash |-> EmptyHash],
      [state_hash |-> "h1", action_type |-> "title_optimization", reward |-> PyNone,
       next_state_hash |-> EmptyHash],
      [state_hash |-> "h2", action_type |-> "audience_engagement", reward |-> PyStr("0.8"),
       next_state_hash |-> "h1"] }

\* dicts handed to load_model_state: nothing saved, a saved state of another
\* run, and a table whose row was written by hand
SavedStates ==
    { EmptyDict,
      [q_table |-> ("h1" :> [ZeroRow EXCEPT !["title_optimization"] = QScale \div 2]),
       learning_stats |-> [InitialStats EXCEPT !.total_actions = 1,
                                               !.successful_actions = 1,
                                               !.avg_reward = QScale],
       hyperparameters |-> [learning_rate |-> 50, discount_factor |-> 90]],
      [q_table |-> ("h1" :> [k \in {"title_optimization"} |-> QScale \div 2])],
      [q_table |-> ("h2" :> EmptyDict)] }

QGetQValue(ag, s, a) ==
    /\ nops < MaxQOps
    /\ LET g == GetQValue(q_table[ag], s, a)
       IN  /\ q_table' = [q_table EXCEPT ![ag] = g.q_table]
           /\ last' = [op |-> "get_q_value", agent |-> ag, outcome |-> g.outcome,
                       s |-> s, a |-> a, value |-> g.value]
    /\ nops' = nops + 1
    /\ UNCHANGED <<learning_stats, episode_rewards, hyper, engvars, beyond_engine>>

QUpdateQValue(ag, s, a, r, ns) ==
    /\ nops < MaxQOps
    /\ LET u == UpdateQValue(q_table[ag], hyper[ag], s, a, PyFloat(r), ns)
       IN  /\ q_table' = [q_table EXCEPT ![ag] = u.q_table]
           /\ last' = [op |-> "update_q_value", agent |-> ag, outcome |-> u.outcome,
                       s |-> s, a |-> a, reward |-> r, ns |-> ns]
    /\ nops' = nops + 1
    /\ UNCHANGED <<learning_stats, episode_rewards, hyper, engvars, beyond_engine>>

QChooseAction(ag, s, force, draw, pick) ==
    /\ nops < MaxQOps
    /\ LET c == ChooseAction(q_table[ag], learning_stats[ag], hyper[ag], s, force, draw,
                             pick)
       IN  /\ q_table' = [q_table EXCEPT ![ag] = c.q_table]
           /\ learning_stats' = [learning_stats EXCEPT ![ag] = c.learning_stats]
           /\ last' = [op |-> "choose_action", agent |-> ag, outcome |-> c.outcome,
                       s |-> s, branch |-> c.branch, force |-> force, kind |-> c.kind,
                       confidence |-> c.confidence]
    /\ nops' = nops + 1
    /\ UNCHANGED <<episode_rewards, hyper, engvars, beyond_engine>>

QLearnFromExperience(ag, e) ==
    /\ nops < MaxQOps
    /\ LET l == LearnFromExperience(q_table[ag], learning_stats[ag], episode_rewards[ag],
                                    hyper[ag], e)
       IN  /\ q_table' = [q_table EXCEPT ![ag] = l.q_table]
           /\ learning_stats' = [learning_stats EXCEPT ![ag] = l.learning_stats]
           /\ episode_rewards' = [episode_rewards EXCEPT ![ag] = l.episode_rewards]
           /\ last' = [op |-> "learn_from_experience", agent |-> ag,
                       outcome |-> l.outcome, experience |-> e, value |-> l.value]
    /\ nops' = nops + 1
    /\ UNCHANGED <<hyper, engvars, beyond_engine>>

QLoadModelState(ag, data) ==
    /\ nops < MaxQOps
    /\ LET m == LoadModelState(q_table[ag], learning_stats[ag], hyper[ag], data)
       IN  /\ q_table' = [q_table EXCEPT ![ag] = m.q_table]
           /\ learning_stats' = [learning_stats EXCEPT ![ag] = m.learning_stats]
           /\ hyper' = [hyper EXCEPT ![ag] = m.hyper]
           /\ last' = [op |-> "load_model_state", agent |-> ag, outcome |-> "ok",
                       data |-> data]
    /\ nops' = nops + 1
    /\ UNCHANGED <<episode_rewards, engvars, beyond_engine>>

\* the agent whose QLearningAgent SpecQ drives
QAgents == {SystemAgent}

NextQ ==
    \/ \E ag \in QAgents, s \in StateHashes, a \in InputKinds : QGetQValue(ag, s, a)
    \/ \E ag \in QAgents, s \in StateHashes, a \in InputKinds, r \in Rewards,
            ns \in NextHashes :
          QUpdateQValue(ag, s, a, r, ns)
    \/ \E ag \in QAgents, s \in StateHashes, force \in BOOLEAN, draw \in RandDraws,
            pick \in InputKinds :
          QChooseAction(ag, s, force, draw, pick)
    \/ \E ag \in QAgents, e \in WellFormed \cup Malformed : QLearnFromExperience(ag, e)
    \/ \E ag \in QAgents, data \in SavedStates : QLoadModelState(ag, data)

SpecQ == Init /\ [][NextQ]_vars

----------------------------------------------------------------------------
(* Spec: an RLEngine driven through decide_action and process_feedback, as  *)
(* YouTubeAgentSystem and RLEnhancedAgent call it                           *)

EngDecideAction(ag, state, exploration_mode, draw, pick) ==
    /\ nops < MaxOps
    /\ LET d == DecideAction(current_episode[ag], q_table[ag], learning_stats[ag],
                             hyper[ag], state, exploration_mode, draw, pick, nops)
       IN  /\ q_table' = [q_table EXCEPT ![ag] = d.q_table]
           /\ learning_stats' = [learning_stats EXCEPT ![ag] = d.learning_stats]
           /\ current_episode' = [current_episode EXCEPT ![ag] = d.current_episode]
           /\ discarded' = IF d.outcome = "ok" /\ current_episode[ag].open
                           THEN [discarded EXCEPT ![ag] = current_episode[ag]]
                           ELSE discarded
           /\ last' = [op |-> "decide_action", agent |-> ag, outcome |-> d.outcome,
                       state |-> state, kind |-> d.kind, at |-> nops]
    /\ nops' = nops + 1
    /\ UNCHANGED <<episode_rewards, hyper, beyond_engine>>

EngProcessFeedback(ag, fb) ==
    /\ nops < MaxOps
    /\ LET f == ProcessFeedback(current_episode[ag], q_table[ag], learning_stats[ag],
                                episode_rewards[ag], hyper[ag], fb)
       IN  /\ q_table' = [q_table EXCEPT ![ag] = f.q_table]
           /\ learning_stats' = [learning_stats EXCEPT ![ag] = f.learning_stats]
           /\ episode_rewards' = [episode_rewards EXCEPT ![ag] = f.episode_rewards]
           /\ current_episode' = [current_episode EXCEPT ![ag] = f.current_episode]
           /\ last' = [op |-> "process_feedback", agent |-> ag, outcome |-> f.outcome,
                       new_metrics |-> fb, value |-> f.value]
    /\ nops' = nops + 1
    /\ UNCHANGED <<hyper, discarded, beyond_engine>>

\* the agent whose RLEngine Spec drives
EngineAgents == {SystemAgent}

Next ==
    \/ \E ag \in EngineAgents, state \in States, exploration_mode \in BOOLEAN,
            draw \in RandDraws, pick \in InputKinds :
          EngDecideAction(ag, state, exploration_mode, draw, pick)
    \/ \E ag \in EngineAgents, fb \in Feedbacks : EngProcessFeedback(ag, fb)

Spec == Init /\ [][Next]_vars

----------------------------------------------------------------------------
(* SpecWrapper: requests to an endpoint wrapped by rl_enhanced, which may   *)
(* overlap at the await of the endpoint, and actions the YouTubeAgentSystem *)
(* simulates for an agent of its own                                        *)

\* random.random() and random.choice() as choose_action draws them: below
\* epsilon with either kind picked, or above it
DrawPicks ==
    { [draw |-> 0, pick |-> k] : k \in InputKinds }
      \cup { [draw |-> 50, pick |-> "title_optimization"] }

SetAgentFields(ag, a) ==
    /\ current_session' = [current_session EXCEPT ![ag] = a.current_session]
    /\ current_episode' = [current_episode EXCEPT ![ag] = a.current_episode]
    /\ q_table' = [q_table EXCEPT ![ag] = a.q_table]
    /\ learning_stats' = [learning_stats EXCEPT ![ag] = a.learning_stats]
    /\ episode_rewards' = [episode_rewards EXCEPT ![ag] = a.episode_rewards]
    /\ stm' = [stm EXCEPT ![ag] = a.stm]

\* wrapper, up to `await func(...)`: initialize_agent and start_session
WrapperEnter(ag, r, dp) ==
    /\ req[r].pc # "awaiting"
    /\ \E s \in { StartSession(current_episode[ag], q_table[ag], learning_stats[ag],
                                hyper[ag], ag, r, RequestInput(r), dp.draw, dp.pick,
                                nops) } :
       LET started == s.outcome = "ok"
       IN  /\ q_table' = [q_table EXCEPT ![ag] = s.q_table]
           /\ learning_stats' = [learning_stats EXCEPT ![ag] = s.learning_stats]
           /\ current_episode' = [current_episode EXCEPT ![ag] = s.current_episode]
           /\ discarded' = IF started /\ current_episode[ag].open
                           THEN [discarded EXCEPT ![ag] = current_episode[ag]]
                           ELSE discarded
           /\ current_session' = IF started
                                 THEN [current_session EXCEPT ![ag] = s.current_session]
                                 ELSE current_session
           /\ req' = [req EXCEPT ![r] =
                        IF started THEN [pc |-> "awaiting", session_id |-> s.session_id]
                        ELSE [pc |-> "raised"]]
           /\ last' = [op |-> "start_session", agent |-> ag, request |-> r,
                       outcome |-> s.outcome]
    /\ nops' = nops + 1
    /\ UNCHANGED <<episode_rewards, hyper, stm, beyond_wrapper>>

\* wrapper, from the return of `await func(...)` to its own return:
\* process_result, and process_result once more from the except clause when
\* the call in the try block raised
WrapperReturn(ag, r, response, redis_up) ==
    /\ req[r].pc = "awaiting"
    /\ \E first \in { ProcessResult(AgentFields(ag), response, ~response.raised,
                                     redis_up, nops) } :
       \E p \in { IF first.outcome = "ok" \/ response.raised
                  THEN first
                  ELSE ProcessResult(first.fields, response, FALSE, redis_up, nops) } :
         /\ SetAgentFields(ag, p.fields)
         /\ req' = [req EXCEPT ![r] =
                      IF p.outcome = "ok" /\ ~response.raised
                      THEN [pc |-> "returned", session_id |-> req[r].session_id,
                            learning_summary |-> p.summary]
                      ELSE [pc |-> "raised"]]
         /\ last' = [op |-> "process_result", agent |-> ag, request |-> r,
                     outcome |-> p.outcome, summary |-> p.summary]
    /\ nops' = nops + 1
    /\ UNCHANGED <<hyper, discarded, beyond_wrapper>>

\* simulate_agent_action(agent_id, youtube_data): the views of youtube_data
\* make the state, the simulated results change them by `improvement`
SimulateAgentAction(ag, state, dp, improvement, redis_up) ==
    /\ \E a \in { AgentFields(ag) } :
       \E d \in { DecideAction(a.current_episode, a.q_table, a.learning_stats, a.hyper,
                               state, FALSE, dp.draw, dp.pick, nops) } :
       \E f \in { ProcessFeedback(d.current_episode, d.q_table, d.learning_stats,
                                  a.episode_rewards, a.hyper,
                                  [numeric |-> TRUE,
                                   reward |-> CalculateReward(improvement, 0)]) } :
       LET simulated_reward == Min2(Max2((improvement * 2) \div 10, -QScale), QScale)
           experience == [action |-> d.kind, q_value |-> f.value,
                          reward |-> simulated_reward, state |-> state]
           stored == StmStoreExperience(a.stm, experience, nops)
           decided == [a EXCEPT !.current_episode = d.current_episode,
                                !.q_table = d.q_table,
                                !.learning_stats = d.learning_stats]
           learned == [a EXCEPT !.current_episode = f.current_episode,
                                !.q_table = f.q_table,
                                !.learning_stats = f.learning_stats,
                                !.episode_rewards = f.episode_rewards]
           error == IF d.outcome # "ok" THEN d.outcome
                    ELSE IF f.outcome # "ok" THEN f.outcome
                    ELSE IF ~redis_up THEN "ConnectionError"
                    ELSE "none"
       IN  /\ discarded' = IF d.outcome = "ok" /\ a.current_episode.open
                           THEN [discarded EXCEPT ![ag] = a.current_episode]
                           ELSE discarded
           /\ \E after \in { IF d.outcome # "ok" THEN decided
                              ELSE IF error # "none" THEN learned
                              ELSE [learned EXCEPT !.stm = stored.stm] } :
                 SetAgentFields(ag, after)
           /\ last' = [op |-> "simulate_agent_action", agent |-> ag, outcome |-> "ok",
                       result |-> IF error # "none" THEN [error |-> error]
                                  ELSE [q_value |-> f.value,
                                        experience_id |-> stored.id]]
    /\ nops' = nops + 1
    /\ UNCHANGED <<hyper, req, beyond_wrapper>>

\* improvements the simulated results can show
SimulatedImprovements == Improvements \ { -QScale }

NextWrapper ==
    /\ nops < MaxWrapOps
    /\ \/ \E r \in Requests, dp \in DrawPicks : WrapperEnter(WrappedAgent, r, dp)
       \/ \E r \in Requests, response \in Responses, redis_up \in BOOLEAN :
             WrapperReturn(WrappedAgent, r, response, redis_up)

SpecWrapper == Init /\ [][NextWrapper]_vars

(* SpecLearn: the two ways a learning cycle is run, requests through the    *)
(* wrapper and simulated actions of the YouTubeAgentSystem                  *)

\* the states simulated actions start from
SimulatedStates == { [views |-> 120000], [views |-> 250000] }

NextLearn ==
    /\ nops < MaxLearnOps
    /\ \/ \E r \in Requests, dp \in DrawPicks : WrapperEnter(WrappedAgent, r, dp)
       \/ \E r \in Requests, response \in Responses, redis_up \in BOOLEAN :
             WrapperReturn(WrappedAgent, r, response, redis_up)
       \/ \E state \in SimulatedStates, dp \in DrawPicks,
               improvement \in SimulatedImprovements, redis_up \in BOOLEAN :
             SimulateAgentAction(SystemAgent, state, dp, improvement, redis_up)

SpecLearn == Init /\ [][NextLearn]_vars

----------------------------------------------------------------------------
(* SpecStore: the public methods of a CentralMemoryDB and of an AgentLTM,   *)
(* called in any order, whether or not a server answers                     *)

\* what a call on the CentralMemoryDB of owner o, about agent agent_id,
\* leaves behind
CentralCallFor(o, op, agent_id, r) ==
    /\ central' = [central EXCEPT ![o] = r.conn]
    /\ central_db' = r.db
    /\ last' = [op |-> op, store |-> "central", owner |-> o, agent |-> agent_id,
                outcome |-> r.outcome, value |-> r.value]
    /\ nops' = nops + 1
    /\ UNCHANGED <<qvars, engvars, wrapvars, env, ltm, cyclevars>>

\* the same for a call that names no agent
CentralCall(o, op, r) == CentralCallFor(o, op, "", r)

\* what a call on the AgentLTM of agent ag leaves behind
LtmCall(ag, op, r) ==
    /\ ltm' = [ltm EXCEPT ![ag] = r.ltm]
    /\ last' = [op |-> op, store |-> "ltm", owner |-> ag, outcome |-> r.outcome,
                value |-> r.value]
    /\ nops' = nops + 1
    /\ UNCHANGED <<qvars, engvars, wrapvars, env, central, central_db, cyclevars>>

\* what an agent with six good experiences of one kind syncs
SharedSummary ==
    [total_experiences |-> 6, high_value_experiences |-> 6,
     avg_q_value |-> (QScale * 9) \div 10, avg_reward |-> (QScale * 95) \div 100,
     best_experiences |->
        [i \in 1..6 |-> [action |-> "title_optimization",
                         q_value |-> (QScale * 9) \div 10,
                         reward |-> (QScale * 95) \div 100]]]

\* more best experiences of one kind than the timing confidence divides by;
\* _sync_with_central_memory sends up to 50
ManySamples == 21

\* what an agent with ManySamples good experiences of one kind syncs
LongSummary ==
    [total_experiences |-> ManySamples, high_value_experiences |-> ManySamples,
     avg_q_value |-> (QScale * 9) \div 10, avg_reward |-> QScale \div 2,
     best_experiences |->
        [i \in 1..ManySamples |-> [action |-> "audience_engagement",
                                   q_value |-> (QScale * 9) \div 10,
                                   reward |-> QScale \div 2]]]

\* summaries an agent may sync
LtmSummaries ==
    { SharedSummary,
      [total_experiences |-> 0, high_value_experiences |-> 0, avg_q_value |-> 0,
       avg_reward |-> 0, best_experiences |-> <<>>],
      [total_experiences |-> 3, high_value_experiences |-> 3,
       avg_q_value |-> (QScale * 9) \div 10, avg_reward |-> QScale \div 2,
       best_experiences |->
          [i \in 1..3 |-> [action |-> "title_optimization",
                           q_value |-> (QScale * 9) \div 10,
                           reward |-> QScale \div 2]]] }

StrategyInputs ==
    { [name |-> "evening_uploads", success_rate |-> (QScale * 8) \div 10],
      [name |-> "evening_uploads", success_rate |-> QScale \div 2] }

UrgentInsights ==
    { [type |-> "exceptional_performance", agent_id |-> SystemAgent,
       avg_reward |-> QScale] }

\* experiences as AgentSTM keeps them
StmRecords ==
    { [id |-> 0, q_value |-> q, reward |-> QScale \div 2, action |-> "title_optimization"] :
        q \in { QScale \div 5, (QScale * 9) \div 10 } }

RegisterAgent(o, agent_id, mongo_up) ==
    \E r \in { CentralRegisterAgent(central[o], central_db, env, agent_id, mongo_up) } :
        CentralCallFor(o, "register_agent", agent_id, r)

SyncAgentData(o, agent_id, ltm_data, mongo_up) ==
    \E r \in { CentralSyncAgentData(central[o], central_db, env, agent_id, ltm_data,
                                     mongo_up, nops) } :
        CentralCallFor(o, "sync_agent_data", agent_id, r)

GetRelevantInsightsForAgent(o, agent_id, mongo_up) ==
    \E r \in { CentralGetRelevantInsights(central[o], central_db, env, agent_id,
                                           mongo_up) } :
        CentralCall(o, "get_relevant_insights_for_agent", r)

UpdateCollectiveStrategy(o, strategy_data, mongo_up) ==
    \E r \in { CentralUpdateCollectiveStrategy(central[o], central_db, strategy_data,
                                                mongo_up, nops) } :
        CentralCall(o, "update_collective_strategy", r)

DetectCrossAgentPatterns(o, mongo_up) ==
    \E r \in { CentralDetectCrossAgentPatterns(central[o], central_db, mongo_up, nops) } :
        CentralCall(o, "detect_cross_agent_patterns", r)

UpdatePerformanceLeaderboard(o, mongo_up) ==
    \E r \in { CentralUpdatePerformanceLeaderboard(central[o], central_db, mongo_up,
                                                    nops) } :
        CentralCall(o, "update_performance_leaderboard", r)

GetGlobalStatistics(o, mongo_up) ==
    \E r \in { CentralGetGlobalStatistics(central[o], central_db, env, mongo_up) } :
        CentralCall(o, "get_global_statistics", r)

BroadcastUrgentInsight(o, insight, target_agents, mongo_up) ==
    \E r \in { CentralBroadcastUrgentInsight(central[o], central_db, insight,
                                              target_agents, mongo_up, nops) } :
        CentralCall(o, "broadcast_urgent_insight", r)

StoreHighValueExperience(ag, experience, mongo_up) ==
    \E r \in { LtmStoreHighValueExperience(ltm[ag], experience, mongo_up, nops) } :
        LtmCall(ag, "store_high_value_experience", r)

GetBestExperiences(ag, mongo_up) ==
    \E r \in { LtmGetBestExperiences(ltm[ag], 100, (QScale * 8) \div 10, mongo_up) } :
        LtmCall(ag, "get_best_experiences", r)

FindSimilarExperiences(ag, action, mongo_up) ==
    \E r \in { LtmFindSimilarExperiences(ltm[ag], action, 10, mongo_up) } :
        LtmCall(ag, "find_similar_experiences", r)

LearnPattern(ag, pattern_data, mongo_up) ==
    \E r \in { LtmLearnPattern(ltm[ag], pattern_data, mongo_up, nops) } :
        LtmCall(ag, "learn_pattern", r)

GetRelevantPatterns(ag, mongo_up) ==
    \E r \in { LtmGetRelevantPatterns(ltm[ag], mongo_up) } :
        LtmCall(ag, "get_relevant_patterns", r)

UpdateStrategy(ag, strategy_name, performance_data, mongo_up) ==
    \E r \in { LtmUpdateStrategy(ltm[ag], strategy_name, performance_data, mongo_up) } :
        LtmCall(ag, "update_strategy", r)

GetBestStrategies(ag, mongo_up) ==
    \E r \in { LtmGetBestStrategies(ltm[ag], mongo_up) } :
        LtmCall(ag, "get_best_strategies", r)

GetAgentLearningStats(ag, mongo_up) ==
    \E r \in { LtmGetAgentLearningStats(ltm[ag], mongo_up) } :
        LtmCall(ag, "get_agent_learning_stats", r)

CleanupOldData(ag, days_old, mongo_up) ==
    \E r \in { LtmCleanupOldData(ltm[ag], days_old, mongo_up, nops) } :
        /\ ltm' = [ltm EXCEPT ![ag] = r.ltm]
        /\ last' = [op |-> "cleanup_old_data", store |-> "ltm", owner |-> ag,
                    outcome |-> r.outcome, value |-> r.value, days_old |-> days_old]
        /\ nops' = nops + 1
        /\ UNCHANGED <<qvars, engvars, wrapvars, env, central, central_db, cyclevars>>

\* the objects SpecStore calls: the CentralMemoryDB of the YouTubeAgentSystem,
\* which nothing has used yet, and the AgentLTM of one agent
StoreOwners == {"system"}
StoreAgents == {SystemAgent}

\* the servers behind both database URLs answer from now on: MongoClient(...)
\* would succeed if it were called again
StorageReturns ==
    /\ env # AllReachable
    /\ env' = AllReachable
    /\ last' = [op |-> "storage_returns", outcome |-> "ok"]
    /\ UNCHANGED <<qvars, engvars, wrapvars, central, central_db, ltm, cyclevars, nops>>

NextStore ==
    /\ nops < MaxStoreOps
    /\ \E mongo_up \in BOOLEAN :
        \/ \E o \in StoreOwners :
            \/ \E a \in IntegratorAgents : RegisterAgent(o, a, mongo_up)
            \/ \E a \in IntegratorAgents, s \in LtmSummaries :
                  SyncAgentData(o, a, s, mongo_up)
            \/ \E a \in StoreAgents : GetRelevantInsightsForAgent(o, a, mongo_up)
            \/ \E s \in StrategyInputs : UpdateCollectiveStrategy(o, s, mongo_up)
            \/ DetectCrossAgentPatterns(o, mongo_up)
            \/ UpdatePerformanceLeaderboard(o, mongo_up)
            \/ GetGlobalStatistics(o, mongo_up)
            \/ \E i \in UrgentInsights, targets \in { <<"None">>, <<WrappedAgent>> } :
                  BroadcastUrgentInsight(o, i, targets, mongo_up)
        \/ \E ag \in StoreAgents :
            \/ \E x \in StmRecords : StoreHighValueExperience(ag, x, mongo_up)
            \/ GetBestExperiences(ag, mongo_up)
            \/ FindSimilarExperiences(ag, "title_optimization", mongo_up)
            \/ LearnPattern(ag, [confidence |-> (QScale * 7) \div 10], mongo_up)
            \/ GetRelevantPatterns(ag, mongo_up)
            \/ UpdateStrategy(ag, "evening_uploads",
                              [success_rate |-> (QScale * 8) \div 10], mongo_up)
            \/ GetBestStrategies(ag, mongo_up)
            \/ GetAgentLearningStats(ag, mongo_up)
            \/ \E days_old \in {0, 30} : CleanupOldData(ag, days_old, mongo_up)
        \/ StorageReturns

SpecStore == InitAnyEnv /\ [][NextStore]_vars

----------------------------------------------------------------------------
(* SpecStm: one AgentSTM is written, read and left alone while time passes. *)
(* A write takes a tick of the clock, a wait a whole number of WaitUnits,   *)
(* so the ticks beyond the last WaitUnit count the writes.                  *)

StmAgent == SystemAgent

\* experience_data handed to store_experience; the last names no q_value,
\* reward or action
StmInputs ==
    { [action |-> "title_optimization", q_value |-> (QScale * 9) \div 10,
       reward |-> QScale, state |-> EmptyDict],
      [action |-> "audience_engagement", q_value |-> QScale \div 2,
       reward |-> 0, state |-> EmptyDict],
      [state |-> EmptyDict] }

\* q_values handed to update_q_value
StmNewQValues == { QScale \div 10, (QScale * 95) \div 100 }

\* thresholds and limits handed to the readers
StmThresholds == { QScale \div 2, (QScale * 9) \div 10 }
StmLimits == 0..2

\* the ids of the list, and one that was never stored
StmIds(mem) == { mem[i].id : i \in DOMAIN mem } \cup { -1 }

WaitTicks == WaitUnit * TicksPerSecond
WritesSoFar == nops % WaitTicks
UnitsSoFar == nops \div WaitTicks

StmStore(ag, data) ==
    /\ WritesSoFar < MaxStmOps
    /\ \E stored \in { StmStoreExperience(stm[ag], data, nops) } :
          /\ stm' = [stm EXCEPT ![ag] = stored.stm]
          /\ last' = [op |-> "store_experience", agent |-> ag, outcome |-> "ok",
                      data |-> data, id |-> stored.id]
    /\ nops' = nops + 1
    /\ UNCHANGED <<qvars, engvars, current_session, req, storevars, cyclevars>>

StmUpdate(ag, experience_id, new_q_value) ==
    /\ WritesSoFar < MaxStmOps
    /\ stm' = [stm EXCEPT ![ag] = StmUpdateQValue(@, experience_id, new_q_value)]
    /\ last' = [op |-> "update_q_value", agent |-> ag, outcome |-> "ok",
                id |-> experience_id, q_value |-> new_q_value,
                found |-> \E i \in DOMAIN stm[ag] :
                             stm[ag][i].id = experience_id /\ stm[ag][i].ttl > 0]
    /\ nops' = nops + 1
    /\ UNCHANGED <<qvars, engvars, current_session, req, storevars, cyclevars>>

StmReadRecent(ag, limit) ==
    /\ last' = [op |-> "get_recent_experiences", agent |-> ag, outcome |-> "ok",
                limit |-> limit, value |-> StmGetRecentExperiences(stm[ag], limit)]
    /\ UNCHANGED <<qvars, engvars, wrapvars, storevars, cyclevars, nops>>

StmReadHighQ(ag, q_threshold, limit) ==
    /\ last' = [op |-> "get_high_q_experiences", agent |-> ag, outcome |-> "ok",
                q_threshold |-> q_threshold, limit |-> limit,
                value |-> StmGetHighQExperiences(stm[ag], q_threshold, limit)]
    /\ UNCHANGED <<qvars, engvars, wrapvars, storevars, cyclevars, nops>>

\* _process_stm_data() of the integrator of agent ag, which reads the
\* candidates of promotion with limit=100
StmProcess(ag) ==
    /\ \E p \in { ProcessStmData(stm[ag], TRUE) } :
          last' = [op |-> "_process_stm_data", agent |-> ag, outcome |-> p.outcome,
                   q_threshold |-> StmToLtmThreshold, limit |-> 100,
                   value |-> p.result.high_value_experiences]
    /\ UNCHANGED <<qvars, engvars, wrapvars, storevars, cyclevars, nops>>

\* units WaitUnits pass with no call; the short wait is taken once the long
\* one has passed
Wait(units) ==
    /\ UnitsSoFar + units <= MaxWaitUnits
    /\ units = LongWaitUnits \/ UnitsSoFar >= LongWaitUnits
    /\ nops' = nops + (units * WaitTicks)
    /\ stm' = [ag \in Agents |-> StmExpire(stm[ag], units * WaitUnit, nops')]
    /\ last' = [op |-> "wait", outcome |-> "ok", seconds |-> units * WaitUnit]
    /\ UNCHANGED <<qvars, engvars, current_session, req, storevars, cyclevars>>

NextStm ==
    \/ \E data \in StmInputs : StmStore(StmAgent, data)
    \/ \E id \in StmIds(stm[StmAgent]), q \in StmNewQValues : StmUpdate(StmAgent, id, q)
    \/ \E limit \in StmLimits : StmReadRecent(StmAgent, limit)
    \/ \E t \in StmThresholds, limit \in StmLimits : StmReadHighQ(StmAgent, t, limit)
    \/ StmProcess(StmAgent)
    \/ \E units \in {1, LongWaitUnits} : Wait(units)

SpecStm == Init /\ [][NextStm]_vars

----------------------------------------------------------------------------
(* SpecBoard: agents register and sync with a reachable central memory,     *)
(* and the leaderboard is updated, in any order                             *)

\* the ids that register and sync: the agents of the system and the agent
\* of test_cloud_connections.py, which no construction registered
BoardAgents == IntegratorAgents \cup { "test_agent" }

\* the CentralMemoryDB the calls go through
BoardOwner == "registry"

\* summaries of different standing
BoardSummaries ==
    { SharedSummary,
      [total_experiences |-> 500, high_value_experiences |-> 100,
       avg_q_value |-> QScale \div 2, avg_reward |-> QScale \div 2,
       best_experiences |-> <<>>] }

NextBoard ==
    /\ nops < MaxBoardOps
    /\ \/ \E a \in BoardAgents : RegisterAgent(BoardOwner, a, TRUE)
       \/ \E a \in BoardAgents, s \in BoardSummaries : SyncAgentData(BoardOwner, a, s, TRUE)
       \/ UpdatePerformanceLeaderboard(BoardOwner, TRUE)

SpecBoard == Init /\ [][NextBoard]_vars

----------------------------------------------------------------------------
(* SpecInsight: agents sync summaries of few and of many best experiences   *)
(* through one CentralMemoryDB and read the insights back                   *)

InsightSummaries == { SharedSummary, LongSummary }

NextInsight ==
    /\ nops < MaxInsightOps
    /\ \/ \E a \in IntegratorAgents, s \in InsightSummaries, mongo_up \in BOOLEAN :
             SyncAgentData(BoardOwner, a, s, mongo_up)
       \/ \E a \in IntegratorAgents : GetRelevantInsightsForAgent(BoardOwner, a, TRUE)

SpecInsight == Init /\ [][NextInsight]_vars

----------------------------------------------------------------------------
(* SpecCycle: the AgentMemoryIntegrator of each agent and the               *)
(* CollectiveIntelligenceOrchestrator that holds them.  No phase of an      *)
(* integration cycle suspends, so a cycle is one step; asyncio.gather runs  *)
(* the cycles one after the other in the order of agent_integrators.        *)

\* what the servers do during one integration cycle: Redis answers or not,
\* MongoDB answers up to the phase before mongo_down_from
Weathers ==
    { [redis_up |-> TRUE, mongo_down_from |-> m] : m \in {2, 3, 5, 6} }
      \cup { [redis_up |-> FALSE, mongo_down_from |-> 6] }

\* q_values of the experiences stored in an AgentSTM
StoredQValues == { QScale \div 2, (QScale * 9) \div 10 }

\* AgentSTM.store_experience(experience_data) of agent ag
StoreExperience(ag, q) ==
    /\ orch.pc = "idle"
    /\ stm' = [stm EXCEPT ![ag] =
                 StmStoreExperience(@, [action |-> "title_optimization", q_value |-> q,
                                        reward |-> QScale \div 2, state |-> EmptyDict],
                                    nops).stm]
    /\ last' = [op |-> "store_experience", agent |-> ag, outcome |-> "ok"]
    /\ nops' = nops + 1
    /\ UNCHANGED <<qvars, engvars, current_session, req, storevars, cyclevars>>

\* the body of run_integration_cycle() of agent ag under weather w; the
\* orchestrator is left to the caller
IntegrationCycle(ag, w) ==
    \E p1 \in { ProcessStmData(stm[ag], w.redis_up) } :
    \E p2 \in { IF Returned(p1)
                THEN PromoteToLtm(ltm[ag], p1.result.high_value_experiences,
                                  2 < w.mongo_down_from, nops)
                ELSE NotRun } :
    \E p3 \in { IF Returned(p2)
                THEN SyncWithCentralMemory(p2.ltm, central[ag], central_db, env, ag,
                                           3 < w.mongo_down_from, nops)
                ELSE NotRun } :
    \E p4 \in { IF Returned(p3)
                THEN ApplyGlobalInsights(GetOrEmpty(p3.result, "insights"))
                ELSE NotRun } :
    \E p5 \in { IF Returned(p4)
                THEN UpdateLearningStrategy(p2.ltm, GetOrEmpty(p3.result, "strategies"),
                                            5 < w.mongo_down_from)
                ELSE NotRun } :
    \E phases \in { <<p1, p2, p3, p4, p5>> } :
        /\ ltm' = [ltm EXCEPT ![ag] =
                     IF p5.outcome # "not_run" THEN p5.ltm
                     ELSE IF Returned(p2) THEN p2.ltm ELSE @]
        /\ central' = [central EXCEPT ![ag] = IF p3.outcome # "not_run" THEN p3.conn ELSE @]
        /\ central_db' = IF p3.outcome # "not_run" THEN p3.db ELSE central_db
        /\ integration_stats' =
              [integration_stats EXCEPT ![ag] =
                 [total_integrations |-> @.total_integrations
                     + (IF Returned(p5) THEN 1 ELSE 0),
                  stm_to_ltm_promotions |-> @.stm_to_ltm_promotions
                     + (IF Returned(p2) THEN p2.result.promoted_count ELSE 0),
                  central_syncs |-> @.central_syncs + (IF Returned(p3) THEN 1 ELSE 0),
                  insights_received |-> @.insights_received
                     + (IF Returned(p4) THEN Len(p4.result.applied_insights) ELSE 0),
                  strategies_updated |-> @.strategies_updated
                     + (IF Returned(p5) THEN Len(p5.result.adopted_strategies) ELSE 0)]]
        /\ last' = [op |-> "run_integration_cycle", agent |-> ag, outcome |-> "ok",
                    results |-> CycleResults(phases),
                    phases |-> [i \in 1..Min2(Completed(phases) + 1, Len(phases)) |->
                                  phases[i].outcome]]
        /\ nops' = nops + 1
        /\ UNCHANGED <<qvars, engvars, wrapvars, env>>

\* run_integration_cycle() called on the integrator of agent ag
RunIntegrationCycle(ag, w) ==
    /\ orch.pc = "idle"
    /\ IntegrationCycle(ag, w)
    /\ UNCHANGED orch

\* update_collective_strategy(strategy_data) on the CentralMemoryDB of the
\* integrator of agent o
ShareStrategy(o, strategy_data) ==
    /\ orch.pc = "idle"
    /\ \E r \in { CentralUpdateCollectiveStrategy(central[o], central_db, strategy_data,
                                                   TRUE, nops) } :
          /\ central' = [central EXCEPT ![o] = r.conn]
          /\ central_db' = r.db
          /\ last' = [op |-> "update_collective_strategy", agent |-> o,
                      outcome |-> r.outcome]
    /\ nops' = nops + 1
    /\ UNCHANGED <<qvars, engvars, wrapvars, env, ltm, cyclevars>>

\* run_collective_cycle() up to its await of asyncio.gather
CollectiveStart ==
    /\ orch.pc = "idle"
    /\ orch' = [orch EXCEPT !.pc = "gathering", !.pending = IntegratorOrder,
                            !.individual = <<>>]
    /\ last' = [op |-> "gather", outcome |-> "ok"]
    /\ nops' = nops + 1
    /\ UNCHANGED <<qvars, engvars, wrapvars, storevars, integration_stats>>

\* asyncio.gather runs the next coroutine; return_exceptions=True keeps
\* what it returned, or the exception it raised, as its result
CollectiveAgentCycle(w) ==
    /\ orch.pc = "gathering"
    /\ orch.pending # <<>>
    /\ IntegrationCycle(Head(orch.pending), w)
    /\ orch' = [orch EXCEPT !.pending = Tail(@),
                            !.individual =
                                Append(@, [raised |-> last'.outcome # "ok",
                                           value |-> last'.results])]

\* an await that resumes as soon as one coroutine is done
GatherDoneAtFirst(o) == Len(o.individual) >= 1

\* `await asyncio.gather(*integration_tasks, ...)` resumes when every
\* coroutine it was given is done
GatherDone(o) == o.pending = <<>>

\* the statements of run_collective_cycle after the gather, in order
StepNames ==
    <<"detect_cross_agent_patterns", "update_performance_leaderboard",
      "_check_urgent_insights", "_generate_collective_report">>

\* run_collective_cycle() from the return of asyncio.gather to its own;
\* nothing in it suspends
CollectiveFinish(redis_up, mongo_up) ==
    /\ orch.pc = "gathering"
    /\ GatherDone(orch)
    /\ \E s2 \in { CentralDetectCrossAgentPatterns(central["orchestrator"], central_db,
                                                    mongo_up, nops) } :
       \E s3 \in { IF Returned(s2)
                   THEN CentralUpdatePerformanceLeaderboard(s2.conn, s2.db, mongo_up, nops)
                   ELSE NotRun } :
       \E s4 \in { IF Returned(s3)
                   THEN CheckUrgentInsights(s3.conn, s3.db, IntegratorOrder, mongo_up,
                                            nops)
                   ELSE NotRun } :
       \E stats4 \in { [orch.stats EXCEPT
                          !.cross_agent_patterns_detected =
                              @ + (IF Returned(s2) THEN Len(s2.value) ELSE 0),
                          !.urgent_insights_broadcasted =
                              @ + (IF Returned(s4) THEN Len(s4.value) ELSE 0)] } :
       \E s5 \in { IF Returned(s4)
                   THEN GenerateCollectiveReport(s4.conn, s4.db, env,
                            [i \in DOMAIN IntegratorOrder |-> ltm[IntegratorOrder[i]]],
                            redis_up, mongo_up, stats4)
                   ELSE NotRun } :
       \E steps \in { <<s2, s3, s4, s5>> } :
       \E reached \in { steps[Min2(Completed(steps) + 1, Len(steps))] } :
       \E stats \in { IF Returned(s5)
                      THEN [stats4 EXCEPT !.total_cycles = @ + 1,
                                          !.successful_cycles = @ + 1]
                      ELSE stats4 } :
          /\ central' = [central EXCEPT !["orchestrator"] =
                            IF Completed(steps) = 0 THEN @ ELSE reached.conn]
          /\ central_db' = IF Completed(steps) = 0 THEN central_db
                           ELSE IF Returned(s5) THEN s5.db
                           ELSE steps[Completed(steps)].db
          /\ orch' = [pc |-> "idle", pending |-> <<>>, individual |-> <<>>,
                      stats |-> stats]
          /\ last' =
                IF Returned(s5)
                THEN [op |-> "run_collective_cycle", outcome |-> "ok",
                      gathered |-> orch.individual,
                      steps |-> [i \in DOMAIN steps |-> steps[i].outcome],
                      result |->
                        [cycle_info |-> [success |-> TRUE,
                                         participating_agents |-> Len(IntegratorOrder)],
                         individual_results |->
                            [ag \in { IntegratorOrder[i] :
                                        i \in NotExceptions(IntegratorOrder,
                                                            orch.individual) } |->
                                orch.individual[CHOOSE i \in DOMAIN IntegratorOrder :
                                                  IntegratorOrder[i] = ag].value],
                         cross_agent_patterns |-> s2.value,
                         performance_leaderboard |-> s3.value,
                         urgent_insights |-> s4.value,
                         collective_report |-> s5.value,
                         orchestrator_stats |-> stats]]
                ELSE [op |-> "run_collective_cycle", outcome |-> "ok",
                      gathered |-> orch.individual,
                      steps |-> [i \in 1..(Completed(steps) + 1) |->
                                   steps[i].outcome],
                      result |->
                        [cycle_info |-> [success |-> FALSE, error |-> reached.outcome]]]
    /\ nops' = nops + 1
    /\ UNCHANGED <<qvars, engvars, wrapvars, env, ltm, integration_stats>>

\* sync_agent_data(agent_id, ltm_data) on the CentralMemoryDB of the
\* integrator of agent ag, outside a cycle
ShareSummary(ag) ==
    /\ orch.pc = "idle"
    /\ SyncAgentData(ag, ag, SharedSummary, TRUE)

\* the calls of SpecCycle from outside are bounded; a collective cycle that
\* has begun runs to its end
NextCycle ==
    \/ /\ nops < MaxCycleOps
       /\ \/ \E ag \in IntegratorAgents, q \in StoredQValues : StoreExperience(ag, q)
          \/ \E ag \in IntegratorAgents, w \in Weathers : RunIntegrationCycle(ag, w)
          \/ \E s \in StrategyInputs : ShareStrategy(SystemAgent, s)
          \/ ShareSummary("trend_analyzer")
          \/ CollectiveStart
    \/ \E w \in Weathers : CollectiveAgentCycle(w)
    \/ \E redis_up \in BOOLEAN, mongo_up \in BOOLEAN : CollectiveFinish(redis_up, mongo_up)

SpecCycle == InitAnyEnv /\ [][NextCycle]_vars

----------------------------------------------------------------------------
(* SpecReward: calculate_reward applied to metric dicts *)

Metrics == { MetricOrder[i] : i \in DOMAIN MetricOrder }

\* every metric at 1000 before, or the ctr not measured
MetricsBefore ==
    { [m \in Metrics |-> 1000], [m \in Metrics \ {"ctr"} |-> 1000] }

\* afterwards a metric is gone, fell by a tenth, rose by a fifth or tripled
MetricsAfter == [Metrics -> {0, 900, 1200, 3000}]

\* hours between decide_action and process_feedback: none, a day, eight
\* days, a quarter of a year
ElapsedHours == {0, 24, 192, 2000}

\* the arguments of a call that is about to be made
InitReward ==
    /\ InitAgent
    /\ InitEngine
    /\ InitWrapper
    /\ InitStores(AllReachable)
    /\ InitCycle
    /\ last \in { [op |-> "arguments", outcome |-> "ok", metrics_before |-> mb,
                    metrics_after |-> ma, hours |-> h, value |-> 0] :
                      mb \in MetricsBefore, ma \in MetricsAfter, h \in ElapsedHours }
    /\ nops = 0

\* calculate_reward is applied to the arguments
CalcReward ==
    /\ last.op = "arguments"
    /\ last' = [last EXCEPT
                  !.op = "calculate_reward",
                  !.value = CalculateRewardOfMetrics(last.metrics_before,
                                                     last.metrics_after, last.hours)]
    /\ nops' = nops + 1
    /\ UNCHANGED <<qvars, engvars, wrapvars, storevars, cyclevars>>

NextReward == CalcReward

SpecReward == InitReward /\ [][NextReward]_vars

----------------------------------------------------------------------------
(* SpecPartition: two agents, each with its RLEngine, AgentSTM, AgentLTM    *)
(* and AgentMemoryIntegrator, act in any order on reachable storage         *)

PartAgents == IntegratorAgents

\* the state, the feedback and the experience the calls are made with
PartState == [views |-> 120000]
PartFeedback == [numeric |-> TRUE, reward |-> QScale]
PartExperience ==
    [action |-> "title_optimization", q_value |-> (QScale * 9) \div 10,
     reward |-> QScale, state |-> EmptyDict]
PartWeather == [redis_up |-> TRUE, mongo_down_from |-> 6]

\* AgentSTM.clear_agent_memory() of agent ag
StmClear(ag) ==
    /\ \E r \in { StmClearAgentMemory(stm, ag) } :
          /\ stm' = r.stm
          /\ last' = [op |-> "clear_agent_memory", agent |-> ag, outcome |-> "ok",
                      found |-> r.value]
    /\ nops' = nops + 1
    /\ UNCHANGED <<qvars, engvars, current_session, req, storevars, cyclevars>>

NextPartition ==
    /\ nops < MaxPartOps
    /\ \E ag \in PartAgents :
          \/ EngDecideAction(ag, PartState, FALSE, 50, "title_optimization")
          \/ EngProcessFeedback(ag, PartFeedback)
          \/ StmStore(ag, PartExperience)
          \/ \E i \in DOMAIN stm[ag] : StmUpdate(ag, stm[ag][i].id, QScale \div 10)
          \/ StmClear(ag)
          \/ \E x \in StmRecords : StoreHighValueExperience(ag, x, TRUE)
          \/ CleanupOldData(ag, 0, TRUE)
          \/ RunIntegrationCycle(ag, PartWeather)

SpecPartition == Init /\ [][NextPartition]_vars

----------------------------------------------------------------------------
(* Claims about the RLEngine, checked under Spec *)

\* the value of entry (h, k) of a Q-table, an entry not yet there read as 0
EntryOrZero(qt, h, k) ==
    IF h \in DOMAIN qt /\ k \in DOMAIN qt[h] THEN qt[h][k] ELSE 0

\* C2: an RLEngine holds one episode at most.  A decide_action that returns
\* makes its own state and kind the open episode, whatever episode was open
\* before, and credits nothing; a process_feedback on an open episode that
\* returns changes the one Q-table entry of that episode's state hash and
\* kind, by one application of the update rule (the next state unknown),
\* and adds one action and one reward to the statistics.
C2_OneOpenEpisode ==
    [][ \A ag \in Agents :
          /\ (last'.op = "decide_action" /\ last'.agent = ag /\ last'.outcome = "ok"
                /\ nops' = nops + 1)
               => /\ current_episode'[ag].open
                  /\ current_episode'[ag].state = last'.state
                  /\ current_episode'[ag].action.kind = last'.kind
                  /\ current_episode'[ag].start_time = nops
                  /\ \A h \in DOMAIN q_table'[ag] : \A k \in DOMAIN q_table'[ag][h] :
                        q_table'[ag][h][k] = EntryOrZero(q_table[ag], h, k)
                  /\ learning_stats'[ag].total_actions = learning_stats[ag].total_actions
                  /\ episode_rewards'[ag] = episode_rewards[ag]
          /\ (last'.op = "process_feedback" /\ last'.agent = ag /\ last'.outcome = "ok"
                /\ nops' = nops + 1 /\ current_episode[ag].open)
               => LET s == GetStateHash(current_episode[ag].state)
                      a == current_episode[ag].action.kind
                      r == last'.new_metrics.reward
                  IN  /\ \A h \in DOMAIN q_table'[ag] : \A k \in DOMAIN q_table'[ag][h] :
                            (h # s \/ k # a)
                              => q_table'[ag][h][k] = EntryOrZero(q_table[ag], h, k)
                      /\ q_table'[ag][s][a] =
                            q_table[ag][s][a]
                              + (hyper[ag].learning_rate * (r - q_table[ag][s][a]))
                                  \div HyperScale
                      /\ learning_stats'[ag].total_actions
                            = learning_stats[ag].total_actions + 1
                      /\ episode_rewards'[ag] = Append(episode_rewards[ag], r)
      ]_vars

\* a process_feedback has credited the second of two decisions made in a
\* row, on another state hash and kind than the first, which has no credit
C2_Witness ==
    \E ag \in Agents :
      /\ last.op = "process_feedback" /\ last.agent = ag /\ last.outcome = "ok"
      /\ last.value # 0
      /\ discarded[ag].open
      /\ ~current_episode[ag].open
      /\ learning_stats[ag].total_actions = 1
      /\ LET s == GetStateHash(discarded[ag].state)
             a == discarded[ag].action.kind
         IN  /\ q_table[ag][s][a] = 0
             /\ \E h \in DOMAIN q_table[ag] \ {s} : \E k \in ActionKinds \ {a} :
                   q_table[ag][h][k] = last.value

\* C3: process_feedback with no episode open returns 0.0, does not raise and
\* changes neither the Q-table, the statistics nor the episode; a
\* process_feedback that returns leaves no episode open.
C3_FeedbackWithoutEpisode ==
    [][ \A ag \in Agents :
          (last'.op = "process_feedback" /\ last'.agent = ag /\ nops' = nops + 1)
            => /\ ~current_episode[ag].open
                    => /\ last'.outcome = "ok"
                       /\ last'.value = 0
                       /\ q_table'[ag] = q_table[ag]
                       /\ learning_stats'[ag] = learning_stats[ag]
                       /\ episode_rewards'[ag] = episode_rewards[ag]
                       /\ hyper'[ag] = hyper[ag]
                       /\ current_episode'[ag] = current_episode[ag]
               /\ last'.outcome = "ok" => ~current_episode'[ag].open
      ]_vars

\* process_feedback was called twice in a row: the first call credited an
\* episode and closed it, the second found none and returned 0.0
C3_Witness ==
    \E ag \in Agents :
      /\ last.op = "process_feedback" /\ last.agent = ag /\ last.outcome = "ok"
      /\ last.value = 0
      /\ last.new_metrics.numeric
      /\ nops = 3
      /\ learning_stats[ag].total_actions = 1
      /\ ~current_episode[ag].open
      /\ ~discarded[ag].open

----------------------------------------------------------------------------
(* Claims about the rl_enhanced wrapper and the learning cycle *)

\* C1: requests to one wrapped agent are serialized.  start_session runs
\* decide_action only when no episode is open and never replaces the session
\* of a request still awaiting its endpoint; process_result finds the session
\* its own request started, with that request's episode open for
\* process_feedback.
C1_RequestsSerialized ==
    [][ \A ag \in Agents :
          /\ (last'.op = "start_session" /\ last'.agent = ag /\ nops' = nops + 1)
               => /\ ~current_episode[ag].open
                  /\ current_session[ag].active
                        => \/ current_session[ag].user_request = last'.request
                           \/ req[current_session[ag].user_request].pc # "awaiting"
          /\ (last'.op = "process_result" /\ last'.agent = ag /\ nops' = nops + 1)
               => /\ current_session[ag].active
                  /\ current_session[ag].user_request = last'.request
                  /\ current_episode[ag].open
                  /\ current_episode[ag].state = RequestInput(last'.request)
      ]_vars

\* the record of AgentSTM with the given id
StmRecord(mem, experience_id) ==
    mem[CHOOSE i \in DOMAIN mem : mem[i].id = experience_id]

----------------------------------------------------------------------------
(* Claims about the stores *)

\* C8: a public method of CentralMemoryDB or AgentLTM called on an object
\* that holds no connection (none was ever made, or making it failed)
\* returns without raising and leaves the collections as they were.
C8_NoConnectionNoRaise ==
    [][ /\ \A o \in CentralOwners :
            (nops' = nops + 1 /\ last'.store = "central" /\ last'.owner = o
               /\ ~central'[o].db)
              => last'.outcome = "ok" /\ central_db' = central_db
        /\ \A ag \in Agents :
            (nops' = nops + 1 /\ last'.store = "ltm" /\ last'.owner = ag
               /\ ~ltm[ag].db)
              => last'.outcome = "ok" /\ ltm' = ltm
      ]_vars

\* the distinct agent_ids among the supporting agents of a pattern
Supporters(pattern) ==
    { pattern.supporting_agents[j] : j \in DOMAIN pattern.supporting_agents }

\* C12: a cross-agent pattern, as detect_cross_agent_patterns returns it and
\* as cross_agent_patterns stores it, is supported by at least 3 distinct
\* agent_ids; with fewer than 2 recent syncs nothing is returned.
C12_PatternNeedsThreeAgents ==
    /\ \A i \in DOMAIN central_db.cross_agent_patterns :
          Cardinality(Supporters(central_db.cross_agent_patterns[i])) >= 3
    /\ (last.op = "detect_cross_agent_patterns" /\ last.outcome = "ok")
          => /\ \A i \in DOMAIN last.value :
                  Cardinality(Supporters(last.value[i])) >= 3
             /\ Len(central_db.agent_synchronization) < 2 => last.value = <<>>

\* the mined insights of a collection for one (insight_type, action_type)
MinedFor(coll, type, action) ==
    { i \in DOMAIN coll : /\ "insight_type" \in DOMAIN coll[i]
                          /\ coll[i].insight_type = type
                          /\ coll[i].action_type = action }

\* the action types a collection holds mined insights of
MinedKinds(coll) ==
    { coll[i].action_type : i \in { j \in DOMAIN coll : "insight_type" \in DOMAIN coll[j] } }

InsightTypes == {"action_performance", "timing_optimization"}

\* the samples an insight of a type needs
SamplesNeeded(type) == IF type = "action_performance" THEN 3 ELSE 5

\* C13: whatever the order of the sync_agent_data calls of the agents,
\* global_insights holds at most one mined insight per (insight_type,
\* action_type).  A sync that mines an insight for a key leaves, as the one
\* record of that key, what it computed from its own best experiences
\* alone (its agent, its sample size, its mean); a sync that mines none for
\* a key leaves the record of that key as it was.
C13_LatestSyncWins ==
    [][ (last'.op = "sync_agent_data" /\ nops' = nops + 1 /\ last'.outcome = "ok"
           /\ "error" \notin DOMAIN last'.value)
          => \E s \in DOMAIN central_db'.agent_synchronization :
               LET doc == central_db'.agent_synchronization[s]
                   IsHigh(x) == x.q_value >= (QScale * 8) \div 10
                   high == SelectSeq(doc.ltm_summary.best_experiences, IsHigh)
                   actions == { high[i].action : i \in DOMAIN high }
                               \cup MinedKinds(central_db.global_insights)
               IN  /\ doc.last_sync = nops
                   /\ \A type \in InsightTypes, k \in actions :
                        LET Of(x) == x.action = k
                            mine == SelectSeq(high, Of)
                            after == MinedFor(central_db'.global_insights, type, k)
                            before == MinedFor(central_db.global_insights, type, k)
                        IN  /\ Cardinality(after) <= 1
                            /\ IF Len(mine) >= SamplesNeeded(type)
                               THEN \E i \in after :
                                      LET rec == central_db'.global_insights[i]
                                      IN  /\ rec.contributing_agent = doc.agent_id
                                          /\ rec.sample_size = Len(mine)
                                          /\ rec.last_updated = nops
                                          /\ type = "action_performance" =>
                                                rec.average_reward =
                                                  Mean([j \in DOMAIN mine |->
                                                          mine[j].reward])
                               ELSE { central_db'.global_insights[i] : i \in after }
                                      = { central_db.global_insights[i] : i \in before }
      ]_vars

\* two agents have synced summaries that each yield an action_performance
\* insight of one kind, with different means, and the record there is the
\* later agent's
C13_Witness ==
    /\ last.op = "sync_agent_data"
    /\ \E a, b \in DOMAIN central_db.agent_synchronization :
          LET first == central_db.agent_synchronization[a]
              second == central_db.agent_synchronization[b]
          IN  /\ first.last_sync < second.last_sync
              /\ Len(first.ltm_summary.best_experiences) >= 3
              /\ Len(second.ltm_summary.best_experiences) >= 3
              /\ first.ltm_summary.avg_reward # second.ltm_summary.avg_reward
              /\ \E i \in MinedFor(central_db.global_insights, "action_performance",
                                    "title_optimization") :
                    /\ central_db.global_insights[i].contributing_agent = second.agent_id
                    /\ central_db.global_insights[i].average_reward
                          = second.ltm_summary.avg_reward

\* C29: every insight sync_agent_data has written to global_insights, of
\* either type, has a confidence from 0 to 1.
C29_ConfidenceInUnitInterval ==
    \A i \in DOMAIN central_db.global_insights :
        LET rec == central_db.global_insights[i]
        IN  "insight_type" \in DOMAIN rec
              => (rec.confidence >= 0 /\ rec.confidence <= QScale)

\* C20: cleanup_old_data(days_old) deletes exactly the LTM experiences of
\* its agent that are both older than the cutoff and of q_value < 0.3: no
\* experience of q_value >= 0.3 and none younger than the cutoff is deleted,
\* the others keep their order, and the number deleted is returned.
C20_CleanupDeletesOldAndLow ==
    [][ (last'.op = "cleanup_old_data" /\ last'.outcome = "ok") =>
          LET before == ltm[last'.owner].experiences
              after == ltm'[last'.owner].experiences
              cutoff == nops - (last'.days_old * 86400 * TicksPerSecond)
              Doomed(x) == x.timestamp < cutoff /\ 10 * x.q_value < 3 * QScale
              Spared(x) == ~Doomed(x)
          IN  /\ after = SelectSeq(before, Spared)
              /\ \A i \in DOMAIN after :
                    after[i].timestamp >= cutoff \/ 10 * after[i].q_value >= 3 * QScale
              /\ \A i \in DOMAIN before :
                    Spared(before[i]) => \E j \in DOMAIN after : after[j] = before[i]
              /\ last'.value = Len(before) - Len(after)
              /\ \A ag \in Agents \ {last'.owner} : ltm'[ag] = ltm[ag] ]_vars

\* a cleanup_old_data has deleted one experience and left in place one that
\* is as old but of q_value >= 0.3
C20_Witness ==
    /\ last.op = "cleanup_old_data" /\ last.outcome = "ok" /\ last.value = 1
    /\ \E i \in DOMAIN ltm[last.owner].experiences :
          /\ ltm[last.owner].experiences[i].timestamp < nops - 1
          /\ 10 * ltm[last.owner].experiences[i].q_value >= 3 * QScale

\* C26: a store whose connection attempt failed connects on its next use once
\* the server answers: the call made then, unless the server drops it, leaves
\* the CentralMemoryDB connected, or the AgentLTM with a database, without
\* raising
C26_RetriesOnNextUse ==
    [][ ( /\ nops' = nops + 1
          /\ env = AllReachable
          /\ "store" \in DOMAIN last'
          /\ last'.outcome # "ServerSelectionTimeoutError"
          /\ IF last'.store = "central"
             THEN central[last'.owner].attempted /\ ~central[last'.owner].connected
             ELSE ~ltm[last'.owner].db )
        => ( /\ last'.outcome = "ok"
             /\ IF last'.store = "central"
                THEN central'[last'.owner].connected
                ELSE ltm'[last'.owner].db ) ]_vars

----------------------------------------------------------------------------
(* Claims about the AgentSTM, checked under SpecStm *)

\* the records of an AgentSTM whose key is alive
LiveRecords(mem) == { mem[i] : i \in { j \in DOMAIN mem : mem[j].ttl > 0 } }

\* C16: whatever was stored, updated and has expired, for every threshold t
\* and limit n get_high_q_experiences(t, n) returns only experiences that
\* are alive with their current q_value, all of q_value >= t, at most n of
\* them, in non-increasing order of q_value.
C16_HighQFilteredCutSorted ==
    last.op = "get_high_q_experiences" =>
        LET v == last.value
        IN  /\ \A i \in DOMAIN v : v[i].q_value >= last.q_threshold
            /\ \A i \in DOMAIN v : v[i] \in LiveRecords(stm[last.agent])
            /\ Len(v) <= last.limit
            /\ \A i, j \in DOMAIN v : i < j => v[i].q_value >= v[j].q_value

\* get_high_q_experiences(t, 1) has returned a record that update_q_value
\* lifted over t, beside an expired record that was over t as well
C16_Witness ==
    /\ last.op = "get_high_q_experiences" /\ last.limit = 1
    /\ Len(last.value) = 1
    /\ last.value[1].q_value = (QScale * 95) \div 100
    /\ "q_value" \in DOMAIN last.value[1].data
    /\ last.value[1].data.q_value < last.q_threshold
    /\ \E i \in DOMAIN stm[last.agent] :
          stm[last.agent][i].ttl = 0 /\ stm[last.agent][i].q_value >= last.q_threshold

\* C17: get_recent_experiences(1) right after store_experience returns
\* exactly the experience just stored, with the action, reward and q_value
\* it was stored with; get_recent_experiences returns experiences that are
\* alive, the most recently stored first.
C17_RecentReturnsStored ==
    [][ last'.op = "get_recent_experiences" =>
          LET v == last'.value
              data == last.data
          IN  /\ \A i \in DOMAIN v : v[i] \in LiveRecords(stm[last'.agent])
              /\ \A i, j \in DOMAIN v : i < j => v[i].id > v[j].id
              /\ (last.op = "store_experience" /\ last'.limit = 1) =>
                    /\ Len(v) = 1
                    /\ v[1].id = last.id
                    /\ v[1].data = data
                    /\ v[1].action = IF "action" \in DOMAIN data THEN data.action ELSE ""
                    /\ v[1].reward = IF "reward" \in DOMAIN data THEN data.reward ELSE 0
                    /\ v[1].q_value = IF "q_value" \in DOMAIN data THEN data.q_value ELSE 0
      ]_vars

\* get_recent_experiences(1) has returned the experience stored the tick
\* before, and an older one is in the list
C17_Witness ==
    /\ last.op = "get_recent_experiences" /\ last.limit = 1
    /\ Len(last.value) = 1
    /\ last.value[1].id = nops - 1
    /\ Len(stm[last.agent]) >= 2

\* C18: an experience is not readable once StmTtl seconds have passed since
\* it was stored, however often update_q_value was applied to it.
C18_GoneAfterTtl ==
    \A r \in LiveRecords(stm[StmAgent]) :
        (\E i \in DOMAIN StmGetRecentExperiences(stm[StmAgent], 0) :
            StmGetRecentExperiences(stm[StmAgent], 0)[i] = r)
        => nops - r.id < StmTtl * TicksPerSecond

\* C25: the candidates of promotion are bounded by recency.  An experience
\* more than 2 * limit places back in the list of its agent is not among
\* what get_high_q_experiences(t, limit) returns, whatever its q_value, and
\* so not among the candidates _process_stm_data reads with limit=100.
C25_WindowOfTwiceLimit ==
    last.op \in {"get_high_q_experiences", "_process_stm_data"} =>
        LET mem == stm[last.agent]
        IN  \A i \in DOMAIN mem :
              i > 2 * last.limit =>
                  \A j \in DOMAIN last.value : last.value[j].id # mem[i].id

\* get_high_q_experiences(t, 1) has returned an experience while a third in
\* the list, alive and of higher q_value, was left out
C25_Witness ==
    /\ last.op = "get_high_q_experiences" /\ last.limit = 1
    /\ Len(last.value) = 1
    /\ Len(stm[last.agent]) = 3
    /\ stm[last.agent][3].ttl > 0
    /\ stm[last.agent][3].q_value > last.value[1].q_value

----------------------------------------------------------------------------
(* Claims about the registry and the leaderboard of central memory *)

\* the agent_ids of the documents of a collection, in stored order
AgentIdsOf(coll) == [i \in DOMAIN coll |-> coll[i].agent_id]

\* the documents of a collection that carry agent_id a
DocsOf(coll, a) == { i \in DOMAIN coll : coll[i].agent_id = a }

\* C14: after every update_performance_leaderboard that went through, the
\* stored leaderboard holds one entry for each active agent that has synced
\* and for no other, the ranks of the entries are exactly 1..n without gap
\* or duplicate, and an entry of smaller rank never has a lower
\* overall_score.
C14_RanksOneToN ==
    (last.op = "update_performance_leaderboard" /\ last.outcome = "ok") =>
        LET lb == central_db.performance_leaderboard
            n == Len(lb)
            Ranked1(a) == \E i \in DOMAIN central_db.active_agents :
                              /\ central_db.active_agents[i].agent_id = a
                              /\ central_db.active_agents[i].status = "active"
            Synced1(a) == DocsOf(central_db.agent_synchronization, a) # {}
        IN  /\ { lb[i].rank : i \in 1..n } = 1..n
            /\ \A i, j \in 1..n : lb[i].rank = lb[j].rank => i = j
            /\ \A i, j \in 1..n :
                  lb[i].rank < lb[j].rank => lb[i].overall_score >= lb[j].overall_score
            /\ \A a \in BoardAgents \cup {WrappedAgent} :
                  Cardinality(DocsOf(lb, a)) =
                      IF Ranked1(a) /\ Synced1(a) THEN 1 ELSE 0
            /\ last.value.total_agents = n

\* an update has re-ranked two agents against the order a former update
\* stored them in, with different scores
C14_Witness ==
    /\ last.op = "update_performance_leaderboard" /\ last.outcome = "ok"
    /\ Len(central_db.performance_leaderboard) = 2
    /\ central_db.performance_leaderboard[1].rank = 2
    /\ central_db.performance_leaderboard[2].rank = 1
    /\ central_db.performance_leaderboard[2].overall_score
          > central_db.performance_leaderboard[1].overall_score

\* C15: register_agent upserts.  A register_agent that went through leaves
\* exactly one document with its agent_id and the documents of the other
\* ids in place; a sync_agent_data adds and removes no document; so
\* active_agents never holds two documents with one agent_id.
C15_OneDocumentPerAgent ==
    [][ LET before == central_db.active_agents
            after == central_db'.active_agents
        IN  /\ (last'.op = "register_agent" /\ last'.outcome = "ok"
                   /\ last'.value # "connection_failed") =>
                  /\ Cardinality(DocsOf(after, last'.agent)) = 1
                  /\ \A a \in BoardAgents \cup {WrappedAgent} :
                        a # last'.agent =>
                            Cardinality(DocsOf(after, a)) = Cardinality(DocsOf(before, a))
            /\ last'.op = "sync_agent_data" => AgentIdsOf(after) = AgentIdsOf(before)
            /\ \A a \in BoardAgents \cup {WrappedAgent} :
                  Cardinality(DocsOf(after, a)) <= 1 ]_vars

\* an agent that was registered at construction has registered again, an
\* agent that was not has registered, and both have synced
C15_Witness ==
    /\ last.op = "sync_agent_data" /\ last.outcome = "ok"
    /\ Len(central_db.active_agents) = Len(RegisteredAtStart) + 1
    /\ \E i \in DOMAIN central_db.active_agents :
          /\ central_db.active_agents[i].agent_id = "test_agent"
          /\ central_db.active_agents[i].total_contributions > 0
    /\ \E i \in DOMAIN central_db.active_agents :
          /\ central_db.active_agents[i].agent_id = SystemAgent
          /\ central_db.active_agents[i].total_contributions > 0

\* the total_contributions of the documents of agent a in active_agents
ContributionsOf(d, a) ==
    { d.active_agents[i].total_contributions : i \in DocsOf(d.active_agents, a) }

\* C30: the total_contributions of a registered agent never decreases and
\* counts its completed sync_agent_data calls since it first registered: a
\* completed sync of the agent adds one, and every other call, a
\* register_agent with the same agent_id included, leaves it as it was.
C30_ContributionsCountSyncs ==
    [][ \A a \in BoardAgents \cup {WrappedAgent} :
          ContributionsOf(central_db, a) # {} =>
            \A before \in ContributionsOf(central_db, a) :
            \A after \in ContributionsOf(central_db', a) :
               IF /\ last'.op = "sync_agent_data" /\ last'.agent = a
                  /\ last'.outcome = "ok" /\ "error" \notin DOMAIN last'.value
               THEN after = before + 1
               ELSE after = before ]_vars

----------------------------------------------------------------------------
(* Claims about the integration cycles, checked under SpecCycle *)

\* C9: run_integration_cycle runs STM collection, LTM promotion, central
\* sync, insight application and strategy update in that order and never
\* raises.  When phase k raises, the result holds the results of phases
\* 1..k-1, an `error` and cycle_performance.success = False; nothing of a
\* later phase has happened (its counter and its store are as before); and
\* what the earlier phases did is kept: the promoted records are in LTM and
\* counted, the sync is in central memory and counted.
C9_PhasesInOrder ==
    [][ \A ag \in IntegratorAgents :
          (last'.op = "run_integration_cycle" /\ last'.agent = ag /\ nops' = nops + 1)
            => LET k == Len(last'.phases)
                   failed == last'.phases[k] # "ok"
                   done == IF failed THEN k - 1 ELSE k
                   results == last'.results
                   before == integration_stats[ag]
                   after == integration_stats'[ag]
                   added == Len(ltm'[ag].experiences) - Len(ltm[ag].experiences)
               IN  /\ last'.outcome = "ok"
                   /\ k <= Len(PhaseKeys)
                   /\ \A i \in 1..(k - 1) : last'.phases[i] = "ok"
                   /\ DOMAIN results =
                        { PhaseKeys[i] : i \in 1..done } \cup {"cycle_performance"}
                          \cup (IF failed THEN {"error"} ELSE {})
                   /\ results.cycle_performance.success = ~failed
                   /\ ~failed => k = Len(PhaseKeys)
                   /\ after.total_integrations =
                        before.total_integrations + (IF failed THEN 0 ELSE 1)
                   \* no phase after the failed one
                   /\ done < 2 => /\ ltm'[ag] = ltm[ag]
                                  /\ after.stm_to_ltm_promotions =
                                        before.stm_to_ltm_promotions
                   /\ done < 3 => /\ after.central_syncs = before.central_syncs
                                  /\ central_db' = central_db
                   /\ done < 4 => after.insights_received = before.insights_received
                   /\ done < 5 => after.strategies_updated = before.strategies_updated
                   /\ k < 5 => ltm'[ag].strategies = ltm[ag].strategies
                   \* the phases that returned are not undone
                   /\ done >= 2 =>
                        /\ after.stm_to_ltm_promotions =
                             before.stm_to_ltm_promotions
                               + results.ltm_promotion.promoted_count
                        /\ added = IF ltm[ag].db
                                   THEN results.ltm_promotion.promoted_count ELSE 0
                        /\ \A i \in 1..added :
                             \E x \in DOMAIN results.stm_processing.high_value_experiences :
                               results.stm_processing.high_value_experiences[x].id
                                 = ltm'[ag].experiences[Len(ltm[ag].experiences) + i].stm_id
                   /\ done >= 3 =>
                        /\ after.central_syncs = before.central_syncs + 1
                        /\ central'[ag].db =>
                             \E i \in DOMAIN central_db'.agent_synchronization :
                               /\ central_db'.agent_synchronization[i].agent_id = ag
                               /\ central_db'.agent_synchronization[i].last_sync = nops
        ]_vars

\* a cycle whose central sync raised after it had promoted a record to LTM
C9_Witness ==
    /\ last.op = "run_integration_cycle"
    /\ Len(last.phases) = 3
    /\ last.phases[3] # "ok"
    /\ "error" \in DOMAIN last.results
    /\ last.results.ltm_promotion.promoted_count > 0
    /\ Len(ltm[last.agent].experiences) > 0
    /\ integration_stats[last.agent].stm_to_ltm_promotions > 0

\* C10: in run_collective_cycle every registered agent's cycle runs, however
\* the cycles before it ended, and individual_results holds, under its
\* agent_id, the result of each agent whose cycle did not fail and of no
\* other agent.
C10_FailedCyclesFilteredOut ==
    last.op = "run_collective_cycle" =>
        LET succeeded == { i \in DOMAIN last.gathered :
                             /\ ~last.gathered[i].raised
                             /\ last.gathered[i].value.cycle_performance.success }
        IN  /\ Len(last.gathered) = Len(IntegratorOrder)
            /\ "individual_results" \in DOMAIN last.result
            /\ DOMAIN last.result.individual_results
                  = { IntegratorOrder[i] : i \in succeeded }
            /\ \A i \in succeeded :
                  last.result.individual_results[IntegratorOrder[i]]
                    = last.gathered[i].value

\* C11: in a run_collective_cycle, pattern detection begins only when the
\* integration cycle of every registered agent has finished, each later step
\* (leaderboard update, urgent-insight check, report) begins only when the
\* step before it has returned, and while the agents' cycles of a run are
\* under way no cycle touches the orchestrator's steps: the run is still
\* gathering after it and the patterns and the leaderboard are as before.
C11_StepsAfterAllCycles ==
    [][ /\ (last'.op = "run_collective_cycle" /\ nops' = nops + 1)
            => /\ orch.pc = "gathering"
               /\ Len(orch.individual) = Len(IntegratorOrder)
               /\ last'.gathered = orch.individual
               /\ Len(last'.steps) \in 1..Len(StepNames)
               /\ \A i \in 1..(Len(last'.steps) - 1) : last'.steps[i] = "ok"
        /\ (last'.op = "run_integration_cycle" /\ nops' = nops + 1
               /\ orch.pc = "gathering")
            => /\ orch'.pc = "gathering"
               /\ Len(orch'.individual) = Len(orch.individual) + 1
               /\ IntegratorOrder[Len(orch'.individual)] = last'.agent
               /\ orch'.stats = orch.stats
               /\ central'["orchestrator"] = central["orchestrator"]
               /\ central_db'.cross_agent_patterns = central_db.cross_agent_patterns
               /\ central_db'.performance_leaderboard
                     = central_db.performance_leaderboard
      ]_vars

\* a collective cycle that began pattern detection with the cycle of every
\* agent gathered, one of them failed and one completed
C11_Witness ==
    /\ last.op = "run_collective_cycle"
    /\ Len(last.gathered) = Len(IntegratorOrder)
    /\ Len(last.steps) >= 1
    /\ \E i, j \in DOMAIN last.gathered :
          /\ last.gathered[i].value.cycle_performance.success
          /\ ~last.gathered[j].value.cycle_performance.success

\* the LTM records of an agent that were promoted from STM experience id
PromotedFrom(l, id) == { i \in DOMAIN l.experiences : l.experiences[i].stm_id = id }

\* C19: promotion is at-least-once and not idempotent.  Every
\* run_integration_cycle whose promotion phase stored without an error adds
\* one LTM record for each STM experience that was a candidate, beside the
\* records earlier cycles added with the same stm_id: k such cycles leave k
\* records of one experience.
C19_PromotionAddsARecordEachCycle ==
    [][ \A ag \in IntegratorAgents :
          (/\ last'.op = "run_integration_cycle" /\ last'.agent = ag
           /\ "ltm_promotion" \in DOMAIN last'.results
           /\ last'.results.ltm_promotion.errors = <<>>
           /\ ltm[ag].db)
          => LET candidates == StmGetHighQExperiences(stm[ag], StmToLtmThreshold, 100)
             IN  /\ last'.results.ltm_promotion.promoted_count = Len(candidates)
                 /\ \A i \in DOMAIN candidates :
                       Cardinality(PromotedFrom(ltm'[ag], candidates[i].id))
                         = Cardinality(PromotedFrom(ltm[ag], candidates[i].id)) + 1
                 /\ Len(ltm'[ag].experiences)
                       = Len(ltm[ag].experiences) + Len(candidates) ]_vars

\* two cycles have promoted one STM experience: LTM holds two records of it
C19_Witness ==
    /\ last.op = "run_integration_cycle"
    /\ \E i \in DOMAIN stm[last.agent] :
          Cardinality(PromotedFrom(ltm[last.agent], stm[last.agent][i].id)) = 2

\* C28: the promoted_count a cycle reports, and adds to
\* integration_stats['stm_to_ltm_promotions'], is the number of records the
\* cycle inserted into LTM; it is 0 when LTM has no connection and every
\* store returns "connection_failed".
C28_PromotedCountIsInserted ==
    [][ \A ag \in IntegratorAgents :
          (/\ last'.op = "run_integration_cycle" /\ last'.agent = ag
           /\ "ltm_promotion" \in DOMAIN last'.results)
          => LET inserted == Len(ltm'[ag].experiences) - Len(ltm[ag].experiences)
             IN  /\ last'.results.ltm_promotion.promoted_count = inserted
                 /\ integration_stats'[ag].stm_to_ltm_promotions
                       = integration_stats[ag].stm_to_ltm_promotions + inserted ]_vars

\* the leaderboard update_performance_leaderboard computes from database d
RefreshedLeaderboard(d) ==
    CentralUpdatePerformanceLeaderboard(
        [connected |-> TRUE, attempted |-> TRUE, db |-> TRUE], d, TRUE, 0).value.leaderboard

\* the urgent insights about agent x that global_insights holds
BroadcastsAbout(d, x) ==
    { i \in DOMAIN d.global_insights :
        /\ "target_agents" \in DOMAIN d.global_insights[i]
        /\ d.global_insights[i].agent_id = x }

\* C22: after a collective cycle an urgent insight about agent X has been
\* broadcast exactly when the entry of X in the refreshed leaderboard has an
\* avg_reward over the urgent threshold, and its targets are all agents
\* registered with the orchestrator but X.
C22_UrgentIffExceeds ==
    last.op = "run_collective_cycle" =>
        LET board == RefreshedLeaderboard(central_db)
            Exceeds(x) == \E i \in DOMAIN board :
                              /\ board[i].agent_id = x
                              /\ board[i].avg_reward > UrgentRewardThreshold
            Other(x) == LET NotX(a) == a # x IN SelectSeq(IntegratorOrder, NotX)
        IN  \A x \in Agents :
              /\ Exceeds(x) <=> BroadcastsAbout(central_db, x) # {}
              /\ \A i \in BroadcastsAbout(central_db, x) :
                    central_db.global_insights[i].target_agents = Other(x)

\* C27: a collective cycle whose agents all finished their own cycles and
\* that no server drops gets through its four steps
\* after the gather, on the CentralMemoryDB the orchestrator built for
\* itself, and returns cycle_info.success = True.
C27_CollectiveCycleSucceeds ==
    ( /\ last.op = "run_collective_cycle"
      /\ \A i \in DOMAIN last.gathered :
            /\ ~last.gathered[i].raised
            /\ "error" \notin DOMAIN last.gathered[i].value
      /\ \A i \in DOMAIN last.steps : last.steps[i] # "ServerSelectionTimeoutError" )
    => ( /\ last.result.cycle_info.success
         /\ Len(last.steps) = 4
         /\ \A i \in DOMAIN last.steps : last.steps[i] = "ok" )

----------------------------------------------------------------------------
(* Claims about calculate_reward, checked under SpecReward *)

\* C23: for metric dicts whose before-values are all positive, and every
\* elapsed time, calculate_reward returns a value in [-1, 1].
C23_RewardClamped ==
    (/\ last.op = "calculate_reward"
     /\ \A m \in Metrics : MetricOrZero(last.metrics_before, m) > 0)
    => (last.value >= -QScale /\ last.value <= QScale)

\* after no time at all every metric has tripled: the weighted sum is over
\* 1 and 1 is returned
C23_Witness ==
    /\ last.op = "calculate_reward"
    /\ \A m \in Metrics : MetricOrZero(last.metrics_before, m) > 0
    /\ TotalReward(last.metrics_before, last.metrics_after, last.hours) > QScale
    /\ last.value = QScale

----------------------------------------------------------------------------
(* Claims about the partition of the agents, checked under SpecPartition *)

\* the agent a call was made for
Actor(call) ==
    IF "agent" \in DOMAIN call THEN call.agent
    ELSE IF "owner" \in DOMAIN call THEN call.owner ELSE ""

\* C21: whatever the order of the calls of two agents, a call made for one
\* agent (decide_action, process_feedback, store_experience, update_q_value,
\* clear_agent_memory, store_high_value_experience, cleanup_old_data, an
\* integration cycle with its promotion) leaves the Q-table, the STM list
\* and records and the LTM collections of every other agent as they were.
C21_OthersUntouched ==
    [][ \A b \in Agents :
          Actor(last') # b =>
              /\ q_table'[b] = q_table[b]
              /\ stm'[b] = stm[b]
              /\ ltm'[b] = ltm[b] ]_vars

\* an agent has cleared its memory while the other has a Q-table entry, an
\* STM record and an LTM record of its own
C21_Witness ==
    /\ last.op = "clear_agent_memory"
    /\ \E b \in PartAgents \ {last.agent} :
          /\ q_table[b] # EmptyDict
          /\ stm[b] # <<>>
          /\ ltm[b].experiences # <<>>

----------------------------------------------------------------------------
(* Claims about the QLearningAgent, checked under SpecQ *)

\* C5: in every reachable state of a QLearningAgent every state hash in the
\* Q-table has an entry for each of the seven action kinds.
C5_EveryRowHasSevenKinds ==
    \A ag \in Agents : \A s \in DOMAIN q_table[ag] : DOMAIN q_table[ag][s] = ActionKinds

\* C6: after a successful update_q_value(s, a, r, s2) the entry of (s, a) is
\* old_q + lr * (r + discount * max(Q[s2]) - old_q), old_q and max(Q[s2])
\* being read in the table as it was before the call, old_q being 0 for an
\* unseen s, and the maximum being 0 when s2 is empty or not in that table.
C6_UpdateRule ==
    [][ (last'.op = "update_q_value" /\ last'.outcome = "ok") =>
          LET ag == last'.agent
              s == last'.s
              a == last'.a
              s2 == last'.ns
              before == q_table[ag]
              old_q == IF s \in DOMAIN before THEN before[s][a] ELSE 0
              max_q == IF s2 = EmptyHash \/ s2 \notin DOMAIN before THEN 0
                       ELSE MaxOfSet({ before[s2][k] : k \in DOMAIN before[s2] })
              target == last'.reward
                          + ((hyper[ag].discount_factor * max_q) \div HyperScale)
          IN  /\ s \in DOMAIN q_table'[ag]
              /\ q_table'[ag][s][a]
                   = old_q + ((hyper[ag].learning_rate * (target - old_q)) \div HyperScale)
      ]_vars

\* C6 witness: a second update of an entry that already holds a value, with
\* the state itself as next state.
C6_Witness ==
    /\ last.op = "update_q_value"
    /\ last.outcome = "ok"
    /\ last.ns = last.s
    /\ nops = 2
    /\ q_table[last.agent][last.s][last.a] > QScale \div 10 + QScale \div 100

\* C7: learn_from_experience given a malformed experience raises and leaves
\* the Q-table and the learning statistics as they were.
C7_MalformedLeavesNoTrace ==
    [][ (last'.op = "learn_from_experience" /\ last'.experience \in Malformed) =>
          /\ last'.outcome # "ok"
          /\ q_table' = q_table
          /\ learning_stats' = learning_stats
          /\ episode_rewards' = episode_rewards
      ]_vars

\* the place of an action kind in the order of the enum
PlaceOf(kind) == CHOOSE i \in DOMAIN ActionOrder : ActionOrder[i] = kind

\* C24: a choose_action that exploits and returns gives the kind whose
\* Q-value for the state's hash is not lower than that of any other kind,
\* the first such kind in the order of the enum, with confidence
\* min(|Q|, 1) of that entry; with force_exploration the explore branch is
\* taken and exploration_actions grows by one.
C24_ExploitPicksFirstBest ==
    [][ (last'.op = "choose_action" /\ nops' = nops + 1) =>
          LET ag == last'.agent
              Q(k) == EntryOrZero(q_table[ag], last'.s, k)
          IN  /\ (last'.branch = "exploit" /\ last'.outcome = "ok") =>
                    /\ ~last'.force
                    /\ \A k \in ActionKinds : Q(last'.kind) >= Q(k)
                    /\ \A k \in ActionKinds :
                          PlaceOf(k) < PlaceOf(last'.kind) => Q(k) < Q(last'.kind)
                    /\ last'.confidence = Min2(Abs(Q(last'.kind)), QScale)
                    /\ learning_stats'[ag].exploration_actions
                          = learning_stats[ag].exploration_actions
              /\ last'.force =>
                    /\ last'.branch = "explore"
                    /\ learning_stats'[ag].exploration_actions
                          = learning_stats[ag].exploration_actions + 1 ]_vars

\* an exploiting choose_action has returned a kind that is not the first of
\* the enum, for the Q-value it has learned
C24_Witness ==
    /\ last.op = "choose_action" /\ last.branch = "exploit" /\ last.outcome = "ok"
    /\ PlaceOf(last.kind) > 1
    /\ last.confidence > 0

=============================================================================
